---- MODULE Spec2Model ----
(***************************************************************************)
(* Model of the financial-control application (js/calculations.js,         *)
(* js/utils.js).  The functions of Calculations are pure functions over    *)
(* JavaScript Numbers, so the model carries an implementation of IEEE-754  *)
(* binary64 arithmetic (round to nearest, ties to even): a Number is a     *)
(* record with a sign, a 53-bit significand held as a multi-limb natural   *)
(* and a binary exponent, plus NaN and the infinities.  Exponents are not  *)
(* range-limited: every input of the model keeps all results far inside    *)
(* the normal range of binary64, where overflow and subnormals do not      *)
(* occur.                                                                  *)
(***************************************************************************)
EXTENDS Integers, Sequences, FiniteSets, TLC

(***************************************************************************)
(* Multi-limb naturals: little-endian sequences of limbs below LimbBase,   *)
(* without leading zero limbs; << >> is 0.                                 *)
(***************************************************************************)
LimbBits == 15
LimbBase == 2^LimbBits

Max2(a, b) == IF a >= b THEN a ELSE b
Min2(a, b) == IF a <= b THEN a ELSE b

RECURSIVE BNorm(_)
BNorm(a) ==
    IF a = << >> THEN a
    ELSE IF a[Len(a)] = 0 THEN BNorm(SubSeq(a, 1, Len(a) - 1)) ELSE a

BFromInt(n) ==
    IF n = 0 THEN << >>
    ELSE IF n < LimbBase THEN << n >>
    ELSE IF n < LimbBase * LimbBase THEN << n % LimbBase, n \div LimbBase >>
    ELSE << n % LimbBase, (n \div LimbBase) % LimbBase, n \div (LimbBase * LimbBase) >>

BLimb(a, i) == IF i >= 1 /\ i <= Len(a) THEN a[i] ELSE 0

RECURSIVE BCmpFrom(_, _, _)
BCmpFrom(a, b, i) ==
    IF i = 0 THEN 0
    ELSE IF a[i] > b[i] THEN 1
    ELSE IF a[i] < b[i] THEN -1
    ELSE BCmpFrom(a, b, i - 1)

\* -1, 0, 1 as a < b, a = b, a > b
BCmp(a, b) ==
    IF Len(a) > Len(b) THEN 1
    ELSE IF Len(a) < Len(b) THEN -1
    ELSE BCmpFrom(a, b, Len(a))

RECURSIVE BAddFrom(_, _, _, _, _)
BAddFrom(a, b, i, carry, acc) ==
    IF i > Max2(Len(a), Len(b))
    THEN IF carry = 0 THEN acc ELSE Append(acc, carry)
    ELSE LET t == BLimb(a, i) + BLimb(b, i) + carry
         IN  BAddFrom(a, b, i + 1, t \div LimbBase, Append(acc, t % LimbBase))

BAdd(a, b) == BAddFrom(a, b, 1, 0, << >>)

RECURSIVE BSubFrom(_, _, _, _, _)
BSubFrom(a, b, i, borrow, acc) ==
    IF i > Len(a) THEN BNorm(acc)
    ELSE LET t == a[i] - BLimb(b, i) - borrow
         IN  IF t < 0 THEN BSubFrom(a, b, i + 1, 1, Append(acc, t + LimbBase))
                      ELSE BSubFrom(a, b, i + 1, 0, Append(acc, t))

\* a - b for a >= b
BSub(a, b) == BSubFrom(a, b, 1, 0, << >>)

RECURSIVE BMulLimbFrom(_, _, _, _, _)
BMulLimbFrom(a, d, i, carry, acc) ==
    IF i > Len(a)
    THEN IF carry = 0 THEN acc ELSE Append(acc, carry)
    ELSE LET t == a[i] * d + carry
         IN  BMulLimbFrom(a, d, i + 1, t \div LimbBase, Append(acc, t % LimbBase))

\* a * d for one limb d
BMulLimb(a, d) == IF d = 0 \/ a = << >> THEN << >> ELSE BMulLimbFrom(a, d, 1, 0, << >>)

BZeros(n) == [i \in 1..n |-> 0]

RECURSIVE BMulFrom(_, _, _, _)
BMulFrom(a, b, i, acc) ==
    IF i > Len(b) THEN acc
    ELSE BMulFrom(a, b, i + 1,
                  IF b[i] = 0 THEN acc
                  ELSE BAdd(acc, BZeros(i - 1) \o BMulLimb(a, b[i])))

BMul(a, b) == IF a = << >> \/ b = << >> THEN << >> ELSE BMulFrom(a, b, 1, << >>)

\* a * 2^n
BShl(a, n) ==
    IF a = << >> THEN a
    ELSE BZeros(n \div LimbBits) \o BMulLimb(a, 2^(n % LimbBits))

\* floor(a / 2^n)
BShr(a, n) ==
    LET q == n \div LimbBits
        r == n % LimbBits
        k == Len(a) - q
    IN  IF k <= 0 THEN << >>
        ELSE BNorm([i \in 1..k |->
                     (a[i + q] \div 2^r)
                       + (BLimb(a, i + q + 1) % 2^r) * 2^(LimbBits - r)])

RECURSIVE IntBitLen(_)
IntBitLen(n) == IF n = 0 THEN 0 ELSE 1 + IntBitLen(n \div 2)

BBitLen(a) ==
    IF a = << >> THEN 0 ELSE LimbBits * (Len(a) - 1) + IntBitLen(a[Len(a)])

\* bit i of a, bit 0 the lowest
BBit(a, i) == (BLimb(a, (i \div LimbBits) + 1) \div 2^(i % LimbBits)) % 2

\* TRUE iff some bit of a below bit i is set
BAnyBelow(a, i) ==
    LET q == i \div LimbBits
        r == i % LimbBits
    IN  \/ \E j \in 1..Min2(q, Len(a)) : a[j] # 0
        \/ BLimb(a, q + 1) % 2^r # 0

BIsOdd(a) == a # << >> /\ a[1] % 2 = 1

RECURSIVE BDivBits(_, _, _, _)
\* binary long division of r * 2^j by d, for d <= 2 * r < 4 * d, one quotient
\* bit per step until the quotient q has len bits; the result is the pair
\* << quotient, remainder >> (j = len - 1 when r >= d, and len otherwise)
BDivBits(r, d, q, len) ==
    IF BBitLen(q) >= len THEN << q, r >>
    ELSE IF BCmp(r, d) >= 0
         THEN BDivBits(BMulLimb(BSub(r, d), 2), d, BAdd(BMulLimb(q, 2), << 1 >>), len)
         ELSE BDivBits(BMulLimb(r, 2), d, BMulLimb(q, 2), len)

RECURSIVE BPow(_, _)
BPow(a, n) == IF n = 0 THEN << 1 >> ELSE BMul(a, BPow(a, n - 1))

(***************************************************************************)
(* JavaScript Numbers (IEEE-754 binary64).  A finite non-zero Number is    *)
(* [k |-> "num", s, m, e] with value (-1)^s * m * 2^e and m of exactly     *)
(* MantBits bits; zero has m = << >> and e = 0.                            *)
(***************************************************************************)
MantBits == 53

NaN == [k |-> "nan", s |-> 0, m |-> << >>, e |-> 0]
Inf(s) == [k |-> "inf", s |-> s, m |-> << >>, e |-> 0]
Zero(s) == [k |-> "num", s |-> s, m |-> << >>, e |-> 0]

IsNaN(x) == x.k = "nan"
IsInf(x) == x.k = "inf"
IsNum(x) == x.k = "num"
IsZero(x) == x.k = "num" /\ x.m = << >>

\* the Number nearest to (-1)^s * n * 2^e, ties to even; sticky says that the
\* exact value lies strictly above n * 2^e in magnitude (below (n + 1) * 2^e)
RoundTo(s, n, e, sticky) ==
    LET len == BBitLen(n)
    IN  IF n = << >> THEN Zero(s)
        ELSE IF len <= MantBits
        THEN [k |-> "num", s |-> s, m |-> BShl(n, MantBits - len), e |-> e - (MantBits - len)]
        ELSE LET sh   == len - MantBits
                 q    == BShr(n, sh)
                 half == BBit(n, sh - 1) = 1
                 rest == BAnyBelow(n, sh - 1) \/ sticky
                 up   == half /\ (rest \/ BIsOdd(q))
                 q1   == IF up THEN BAdd(q, << 1 >>) ELSE q
             IN  IF BBitLen(q1) > MantBits
                 THEN [k |-> "num", s |-> s, m |-> BShr(q1, 1), e |-> e + sh + 1]
                 ELSE [k |-> "num", s |-> s, m |-> q1, e |-> e + sh]

FromInt(i) == RoundTo(IF i < 0 THEN 1 ELSE 0, BFromInt(IF i < 0 THEN -i ELSE i), 0, FALSE)

FNeg(x) == IF IsNaN(x) THEN x ELSE [x EXCEPT !.s = 1 - x.s]
FAbs(x) == IF IsNaN(x) THEN x ELSE [x EXCEPT !.s = 0]

\* magnitude comparison of two finite Numbers: -1, 0, 1
MagCmp(x, y) ==
    IF x.m = << >> THEN (IF y.m = << >> THEN 0 ELSE -1)
    ELSE IF y.m = << >> THEN 1
    ELSE IF x.e > y.e THEN 1
    ELSE IF x.e < y.e THEN -1
    ELSE BCmp(x.m, y.m)

\* exact values: [s, n, e] stands for (-1)^s * n * 2^e with n any natural
Exact(x) == [s |-> x.s, n |-> x.m, e |-> x.e]

\* the exact sum of two exact values
ExactAdd(a, b) ==
    IF a.n = << >> THEN b
    ELSE IF b.n = << >> THEN a
    ELSE LET e  == Min2(a.e, b.e)
             na == BShl(a.n, a.e - e)
             nb == BShl(b.n, b.e - e)
             c  == BCmp(na, nb)
         IN  IF a.s = b.s THEN [s |-> a.s, n |-> BAdd(na, nb), e |-> e]
             ELSE IF c = 0 THEN [s |-> 0, n |-> << >>, e |-> 0]
             ELSE IF c > 0 THEN [s |-> a.s, n |-> BSub(na, nb), e |-> e]
             ELSE [s |-> b.s, n |-> BSub(nb, na), e |-> e]

ExactNeg(a) == [a EXCEPT !.s = 1 - a.s]
ExactEq(a, b) == ExactAdd(a, ExactNeg(b)).n = << >>

\* x + y
FAdd(x, y) ==
    IF IsNaN(x) \/ IsNaN(y) THEN NaN
    ELSE IF IsInf(x) THEN (IF IsInf(y) /\ y.s # x.s THEN NaN ELSE x)
    ELSE IF IsInf(y) THEN y
    ELSE IF IsZero(x) THEN (IF IsZero(y) THEN Zero(IF x.s = 1 /\ y.s = 1 THEN 1 ELSE 0) ELSE y)
    ELSE IF IsZero(y) THEN x
    ELSE LET r == ExactAdd(Exact(x), Exact(y))
         IN  RoundTo(r.s, r.n, r.e, FALSE)

\* x - y
FSub(x, y) == FAdd(x, FNeg(y))

\* x * y
FMul(x, y) ==
    LET s == IF x.s = y.s THEN 0 ELSE 1
    IN  IF IsNaN(x) \/ IsNaN(y) THEN NaN
        ELSE IF IsInf(x) THEN (IF IsZero(y) THEN NaN ELSE Inf(s))
        ELSE IF IsInf(y) THEN (IF IsZero(x) THEN NaN ELSE Inf(s))
        ELSE IF IsZero(x) \/ IsZero(y) THEN Zero(s)
        ELSE RoundTo(s, BMul(x.m, y.m), x.e + y.e, FALSE)

\* x / y
FDiv(x, y) ==
    LET s == IF x.s = y.s THEN 0 ELSE 1
    IN  IF IsNaN(x) \/ IsNaN(y) THEN NaN
        ELSE IF IsInf(x) THEN (IF IsInf(y) THEN NaN ELSE Inf(s))
        ELSE IF IsInf(y) THEN Zero(s)
        ELSE IF IsZero(y) THEN (IF IsZero(x) THEN NaN ELSE Inf(s))
        ELSE IF IsZero(x) THEN Zero(s)
        ELSE LET len == MantBits + 2
                 j   == IF BCmp(x.m, y.m) >= 0 THEN len - 1 ELSE len
                 qr  == BDivBits(x.m, y.m, << >>, len)
             IN  RoundTo(s, qr[1], x.e - y.e - j, qr[2] # << >>)

\* x < y, x <= y, x === y on Numbers (all FALSE when either is NaN)
FLt(x, y) ==
    IF IsNaN(x) \/ IsNaN(y) THEN FALSE
    ELSE IF IsInf(x) THEN x.s = 1 /\ ~(IsInf(y) /\ y.s = 1)
    ELSE IF IsInf(y) THEN y.s = 0
    ELSE IF IsZero(x) /\ IsZero(y) THEN FALSE
    ELSE IF IsZero(x) THEN y.s = 0
    ELSE IF IsZero(y) THEN x.s = 1
    ELSE IF x.s # y.s THEN x.s = 1
    ELSE IF x.s = 0 THEN MagCmp(x, y) < 0
    ELSE MagCmp(x, y) > 0

FEq(x, y) ==
    IF IsNaN(x) \/ IsNaN(y) THEN FALSE
    ELSE IF IsZero(x) /\ IsZero(y) THEN TRUE
    ELSE x = y

FLe(x, y) == FLt(x, y) \/ FEq(x, y)
FGt(x, y) == FLt(y, x)
FGe(x, y) == FLe(y, x)

\* Math.max(x, y)
FMax(x, y) ==
    IF IsNaN(x) \/ IsNaN(y) THEN NaN
    ELSE IF IsZero(x) /\ IsZero(y) THEN Zero(IF x.s = 1 /\ y.s = 1 THEN 1 ELSE 0)
    ELSE IF FLt(x, y) THEN y ELSE x

\* the neighbour of the finite non-zero Number x, d = 1 away from zero and
\* d = -1 towards zero
FNeighbour(x, d) ==
    IF d = 0 \/ ~IsNum(x) \/ IsZero(x) THEN x
    ELSE IF d = 1
    THEN LET m1 == BAdd(x.m, << 1 >>)
         IN  IF BBitLen(m1) > MantBits THEN [x EXCEPT !.m = BShr(m1, 1), !.e = x.e + 1]
                                       ELSE [x EXCEPT !.m = m1]
    ELSE LET m1 == BSub(x.m, << 1 >>)
         IN  IF BBitLen(m1) < MantBits
             THEN [x EXCEPT !.m = BAdd(BMulLimb(m1, 2), << 1 >>), !.e = x.e - 1]
             ELSE [x EXCEPT !.m = m1]

\* Math.pow(x, n) for a finite x and an integer n >= 0.  The language leaves
\* the result implementation-approximated: err in {-1, 0, 1} is the number of
\* units in the last place by which the engine misses the correctly rounded
\* power when the power is not itself a Number.
MathPow(x, n, err) ==
    IF n = 0 THEN FromInt(1)
    ELSE IF IsNaN(x) THEN NaN
    ELSE IF IsInf(x) THEN Inf(IF x.s = 1 /\ n % 2 = 1 THEN 1 ELSE 0)
    ELSE IF IsZero(x) THEN Zero(IF x.s = 1 /\ n % 2 = 1 THEN 1 ELSE 0)
    ELSE LET s     == IF x.s = 1 /\ n % 2 = 1 THEN 1 ELSE 0
             p     == BPow(x.m, n)
             exact == BBitLen(p) <= MantBits \/ ~BAnyBelow(p, BBitLen(p) - MantBits)
             r     == RoundTo(s, p, x.e * n, FALSE)
         IN  IF exact THEN r ELSE FNeighbour(r, err)

(***************************************************************************)
(* Dates: the local calendar fields of a JavaScript Date, month 0..11.     *)
(***************************************************************************)
IsLeap(y) == (y % 4 = 0 /\ y % 100 # 0) \/ y % 400 = 0

DaysInMonth(y, mo) ==
    IF mo = 1 THEN (IF IsLeap(y) THEN 29 ELSE 28)
    ELSE IF mo \in {3, 5, 8, 10} THEN 30 ELSE 31

RECURSIVE MakeDate(_, _, _)
\* the date that is d - 1 days after the first day of month mo of year y,
\* for any integer mo and d >= 1 (Date's MakeDay)
MakeDate(y, mo, d) ==
    IF mo < 0 \/ mo > 11 THEN MakeDate(y + (mo \div 12), mo % 12, d)
    ELSE IF d > DaysInMonth(y, mo) THEN MakeDate(y, mo + 1, d - DaysInMonth(y, mo))
    ELSE [y |-> y, mo |-> mo, d |-> d]

\* addMonths keeping the date inside the target month
addMonthsClamped(date, n) ==
    LET idx == date.y * 12 + date.mo + n
    IN  [y |-> idx \div 12, mo |-> idx % 12,
         d |-> Min2(date.d, DaysInMonth(idx \div 12, idx % 12))]

\* Utils.addMonths(date, months)
addMonths(date, n) == MakeDate(date.y, date.mo + n, date.d)

\* Utils.monthsBetween(date1, date2)
monthsBetween(d1, d2) == (d2.y - d1.y) * 12 + (d2.mo - d1.mo)

(***************************************************************************)
(* Loan amortization (Calculations).  months is an integer-valued Number.  *)
(***************************************************************************)
\* the annual rate taken for the monthly one
MonthlyRateAnnual(annualRate) == annualRate

MonthlyRate(annualRate) == FDiv(annualRate, FromInt(12))

Row(i, date, payment, interest, amortization, balance) ==
    [number |-> i, date |-> date, payment |-> payment, interest |-> interest,
     amortization |-> amortization, balance |-> FMax(Zero(0), balance)]

RECURSIVE SACRows(_, _, _, _, _, _, _)
\* the loop of generateSACTable from installment i on, balance the balance
\* outstanding before installment i
SACRows(i, months, balance, amortization, monthlyRate, startDate, table) ==
    IF i > months THEN table
    ELSE LET interest == FMul(balance, monthlyRate)
             payment  == FAdd(amortization, interest)
             balance1 == FSub(balance, amortization)
             row      == Row(i, addMonths(startDate, i - 1), payment, interest,
                             amortization, balance1)
         IN  SACRows(i + 1, months, balance1, amortization, monthlyRate, startDate,
                     Append(table, row))

generateSACTable(principal, annualRate, months, startDate) ==
    SACRows(1, months, principal, FDiv(principal, FromInt(months)),
            MonthlyRate(annualRate), startDate, << >>)

getSACRemainingBalance(principal, months, paidMonths) ==
    LET amortization == FDiv(principal, FromInt(months))
    IN  FMax(Zero(0), FSub(principal, FMul(amortization, FromInt(paidMonths))))

calculatePRICEPayment(principal, annualRate, months, err) ==
    LET monthlyRate == MonthlyRate(annualRate)
        pw          == MathPow(FAdd(FromInt(1), monthlyRate), months, err)
    IN  IF FEq(monthlyRate, Zero(0)) THEN FDiv(principal, FromInt(months))
        ELSE FDiv(FMul(principal, FMul(monthlyRate, pw)), FSub(pw, FromInt(1)))

RECURSIVE PRICERows(_, _, _, _, _, _, _)
\* the loop of generatePRICETable from installment i on
PRICERows(i, months, balance, payment, monthlyRate, startDate, table) ==
    IF i > months THEN table
    ELSE LET interest     == FMul(balance, monthlyRate)
             amortization == FSub(payment, interest)
             balance1     == FSub(balance, amortization)
             row          == Row(i, addMonths(startDate, i - 1), payment, interest,
                                 amortization, balance1)
         IN  PRICERows(i + 1, months, balance1, payment, monthlyRate, startDate,
                       Append(table, row))

generatePRICETable(principal, annualRate, months, startDate, err) ==
    PRICERows(1, months, principal, calculatePRICEPayment(principal, annualRate, months, err),
              MonthlyRate(annualRate), startDate, << >>)

getPRICERemainingBalance(principal, annualRate, months, paidMonths, err) ==
    LET monthlyRate == MonthlyRate(annualRate)
        payment     == calculatePRICEPayment(principal, annualRate, months, err)
        pw          == MathPow(FAdd(FromInt(1), monthlyRate), months - paidMonths, err)
        balance     == FMul(payment, FDiv(FSub(pw, FromInt(1)), FMul(monthlyRate, pw)))
    IN  IF paidMonths >= months THEN Zero(0)
        ELSE FMax(Zero(0), balance)

\* a field left out read as undefined, which is NaN in arithmetic
FieldWithoutDefault(data, f) == IF f \in DOMAIN data THEN data[f] ELSE NaN

(***************************************************************************)
(* Statement builders (Calculations).  data is the input record: a         *)
(* function from some field names to Numbers; destructuring with defaults  *)
(* reads a field that is not there as 0.                                   *)
(***************************************************************************)
Field(data, f) == IF f \in DOMAIN data THEN data[f] ELSE Zero(0)

\* financial income subtracted like the financial expenses
LairAllSubtracted(ebit, despesasFinanceiras, receitasFinanceiras) ==
    FSub(FSub(ebit, despesasFinanceiras), receitasFinanceiras)

\* LAIR: ebit - despesasFinanceiras + receitasFinanceiras
Lair(ebit, despesasFinanceiras, receitasFinanceiras) ==
    FAdd(FSub(ebit, despesasFinanceiras), receitasFinanceiras)

calculateDRE(data) ==
    LET receitaBruta        == Field(data, "receitaBruta")
        taxasPlataforma     == Field(data, "taxasPlataforma")
        impostos            == Field(data, "impostos")
        custosVariaveis     == Field(data, "custosVariaveis")
        despesasFixas       == Field(data, "despesasFixas")
        depreciacao         == Field(data, "depreciacao")
        despesasFinanceiras == Field(data, "despesasFinanceiras")
        receitasFinanceiras == Field(data, "receitasFinanceiras")
        ir                  == Field(data, "ir")
        csll                == Field(data, "csll")
        deducoes            == FAdd(taxasPlataforma, impostos)
        receitaLiquida      == FSub(receitaBruta, deducoes)
        lucroBruto          == FSub(receitaLiquida, custosVariaveis)
        ebitda              == FSub(lucroBruto, despesasFixas)
        ebit                == FSub(ebitda, depreciacao)
        lair                == Lair(ebit, despesasFinanceiras, receitasFinanceiras)
        lucroLiquido        == FSub(FSub(lair, ir), csll)
        positive            == FGt(receitaBruta, Zero(0))
    IN  [receitaBruta |-> receitaBruta,
         deducoes |-> deducoes,
         receitaLiquida |-> receitaLiquida,
         custosVariaveis |-> custosVariaveis,
         lucroBruto |-> lucroBruto,
         despesasFixas |-> despesasFixas,
         ebitda |-> ebitda,
         depreciacao |-> depreciacao,
         ebit |-> ebit,
         despesasFinanceiras |-> despesasFinanceiras,
         receitasFinanceiras |-> receitasFinanceiras,
         lair |-> lair,
         ir |-> ir,
         csll |-> csll,
         lucroLiquido |-> lucroLiquido,
         margemBruta |-> IF positive THEN FDiv(lucroBruto, receitaBruta) ELSE Zero(0),
         margemEbitda |-> IF positive THEN FDiv(ebitda, receitaBruta) ELSE Zero(0),
         margemLiquida |-> IF positive THEN FDiv(lucroLiquido, receitaBruta) ELSE Zero(0)]

\* a tolerance of 0.1
LooseTolerance == FDiv(FromInt(1), FromInt(10))

\* the literal 0.01 of the balance check
BalanceTolerance == FDiv(FromInt(1), FromInt(100))

calculateBalanceSheet(data) ==
    LET caixaEquivalentes            == Field(data, "caixaEquivalentes")
        contasReceber                == Field(data, "contasReceber")
        outrosAtivosCirculantes      == Field(data, "outrosAtivosCirculantes")
        imoveis                      == Field(data, "imoveis")
        depreciacaoAcumulada         == Field(data, "depreciacaoAcumulada")
        moveisEquipamentos           == Field(data, "moveisEquipamentos")
        depreciacaoMoveisAcumulada   == Field(data, "depreciacaoMoveisAcumulada")
        outrosAtivosNaoCirculantes   == Field(data, "outrosAtivosNaoCirculantes")
        fornecedores                 == Field(data, "fornecedores")
        impostosPagar                == Field(data, "impostosPagar")
        financiamentosCurtoPrazo     == Field(data, "financiamentosCurtoPrazo")
        outrosPassivosCirculantes    == Field(data, "outrosPassivosCirculantes")
        financiamentosLongoPrazo     == Field(data, "financiamentosLongoPrazo")
        outrosPassivosNaoCirculantes == Field(data, "outrosPassivosNaoCirculantes")
        capitalSocial                == Field(data, "capitalSocial")
        reservas                     == Field(data, "reservas")
        lucrosAcumulados             == Field(data, "lucrosAcumulados")
        ativoCirculante    == FAdd(FAdd(caixaEquivalentes, contasReceber),
                                   outrosAtivosCirculantes)
        imoveisLiquidos    == FSub(imoveis, depreciacaoAcumulada)
        moveisLiquidos     == FSub(moveisEquipamentos, depreciacaoMoveisAcumulada)
        ativoNaoCirculante == FAdd(FAdd(imoveisLiquidos, moveisLiquidos),
                                   outrosAtivosNaoCirculantes)
        ativoTotal         == FAdd(ativoCirculante, ativoNaoCirculante)
        passivoCirculante  == FAdd(FAdd(FAdd(fornecedores, impostosPagar),
                                        financiamentosCurtoPrazo),
                                   outrosPassivosCirculantes)
        passivoNaoCirculante == FAdd(financiamentosLongoPrazo, outrosPassivosNaoCirculantes)
        passivoTotal       == FAdd(passivoCirculante, passivoNaoCirculante)
        patrimonioLiquido  == FAdd(FAdd(capitalSocial, reservas), lucrosAcumulados)
        passivoMaisPL      == FAdd(passivoTotal, patrimonioLiquido)
        balanced           == FLt(FAbs(FSub(ativoTotal, passivoMaisPL)), BalanceTolerance)
    IN  [ativo |->
           [circulante |->
              [caixaEquivalentes |-> caixaEquivalentes,
               contasReceber |-> contasReceber,
               outrosAtivosCirculantes |-> outrosAtivosCirculantes,
               total |-> ativoCirculante],
            naoCirculante |->
              [imoveis |-> imoveis,
               depreciacaoAcumulada |-> depreciacaoAcumulada,
               imoveisLiquidos |-> imoveisLiquidos,
               moveisEquipamentos |-> moveisEquipamentos,
               depreciacaoMoveisAcumulada |-> depreciacaoMoveisAcumulada,
               moveisLiquidos |-> moveisLiquidos,
               outrosAtivosNaoCirculantes |-> outrosAtivosNaoCirculantes,
               total |-> ativoNaoCirculante],
            total |-> ativoTotal],
         passivo |->
           [circulante |->
              [fornecedores |-> fornecedores,
               impostosPagar |-> impostosPagar,
               financiamentosCurtoPrazo |-> financiamentosCurtoPrazo,
               outrosPassivosCirculantes |-> outrosPassivosCirculantes,
               total |-> passivoCirculante],
            naoCirculante |->
              [financiamentosLongoPrazo |-> financiamentosLongoPrazo,
               outrosPassivosNaoCirculantes |-> outrosPassivosNaoCirculantes,
               total |-> passivoNaoCirculante],
            total |-> passivoTotal],
         patrimonioLiquido |->
           [capitalSocial |-> capitalSocial,
            reservas |-> reservas,
            lucrosAcumulados |-> lucrosAcumulados,
            total |-> patrimonioLiquido],
         passivoMaisPL |-> passivoMaisPL,
         balanced |-> balanced]

\* the closing balance without the opening balance
SaldoFinalWithoutOpening(saldoInicial, fluxoTotal) == fluxoTotal

\* saldoFinal = saldoInicial + fluxoTotal
SaldoFinal(saldoInicial, fluxoTotal) == FAdd(saldoInicial, fluxoTotal)

calculateCashFlow(data) ==
    LET recebimentos             == Field(data, "recebimentos")
        pagamentosOperacionais   == Field(data, "pagamentosOperacionais")
        pagamentosImpostos       == Field(data, "pagamentosImpostos")
        aquisicoesAtivos         == Field(data, "aquisicoesAtivos")
        vendasAtivos             == Field(data, "vendasAtivos")
        aportesCapital           == Field(data, "aportesCapital")
        pagamentosFinanciamentos == Field(data, "pagamentosFinanciamentos")
        distribuicaoLucros       == Field(data, "distribuicaoLucros")
        saldoInicial             == Field(data, "saldoInicial")
        fluxoOperacional   == FSub(FSub(recebimentos, pagamentosOperacionais),
                                   pagamentosImpostos)
        fluxoInvestimento  == FSub(vendasAtivos, aquisicoesAtivos)
        fluxoFinanciamento == FSub(FSub(aportesCapital, pagamentosFinanciamentos),
                                   distribuicaoLucros)
        fluxoTotal         == FAdd(FAdd(fluxoOperacional, fluxoInvestimento),
                                   fluxoFinanciamento)
        saldoFinal         == SaldoFinal(saldoInicial, fluxoTotal)
    IN  [operacional |->
           [recebimentos |-> recebimentos,
            pagamentosOperacionais |-> pagamentosOperacionais,
            pagamentosImpostos |-> pagamentosImpostos,
            total |-> fluxoOperacional],
         investimento |->
           [aquisicoesAtivos |-> aquisicoesAtivos,
            vendasAtivos |-> vendasAtivos,
            total |-> fluxoInvestimento],
         financiamento |->
           [aportesCapital |-> aportesCapital,
            pagamentosFinanciamentos |-> pagamentosFinanciamentos,
            distribuicaoLucros |-> distribuicaoLucros,
            total |-> fluxoFinanciamento],
         saldoInicial |-> saldoInicial,
         fluxoTotal |-> fluxoTotal,
         saldoFinal |-> saldoFinal]

(***************************************************************************)
(* Math.pow with a Number exponent.                                        *)
(***************************************************************************)
\* the largest r with r * r <= n, built from bit b downwards
RECURSIVE SqrtBits(_, _, _)
SqrtBits(n, r, b) ==
    IF b < 0 THEN r
    ELSE LET c == BAdd(r, BShl(<< 1 >>, b))
         IN  IF BCmp(BMul(c, c), n) <= 0 THEN SqrtBits(n, c, b - 1)
                                         ELSE SqrtBits(n, r, b - 1)

\* the square root of the finite Number x > 0, correctly rounded, missed by
\* err units in the last place when the root is not itself a Number
SqrtPos(x, err) ==
    LET sh    == IF x.e % 2 = 0 THEN MantBits + 5 ELSE MantBits + 4
        n     == BShl(x.m, sh)
        r     == SqrtBits(n, << >>, MantBits + 2)
        exact == BMul(r, r) = n
        v     == RoundTo(0, r, (x.e - sh) \div 2, ~exact)
    IN  IF exact /\ BBitLen(r) <= MantBits THEN v
        ELSE IF exact /\ ~BAnyBelow(r, BBitLen(r) - MantBits) THEN v
        ELSE FNeighbour(v, err)

\* Math.pow(x, y) for the exponents y = 1 / years that occur: 2, 1 and 1/2
MathPowNumber(x, y, err) ==
    IF IsNaN(y) \/ IsNaN(x) THEN NaN
    ELSE CASE FEq(y, FromInt(1)) -> MathPow(x, 1, err)
           [] FEq(y, FromInt(2)) -> MathPow(x, 2, err)
           [] FEq(y, FDiv(FromInt(1), FromInt(2))) ->
                IF IsZero(x) THEN Zero(0)
                ELSE IF IsInf(x) THEN Inf(0)
                ELSE IF x.s = 1 THEN NaN
                ELSE SqrtPos(x, err)

(***************************************************************************)
(* Depreciation, property metrics, valuation, projections, consortium and  *)
(* taxes.                                                                   *)
(***************************************************************************)
\* the book value kept from going below 0
calculateDepreciationClamped(value, lifeYears, yearsUsed) ==
    LET annualDepreciation      == FDiv(value, lifeYears)
        accumulatedDepreciation == FMul(annualDepreciation, yearsUsed)
    IN  [annualDepreciation      |-> annualDepreciation,
         accumulatedDepreciation |-> accumulatedDepreciation,
         bookValue               |-> FMax(Zero(0), FSub(value, accumulatedDepreciation)),
         remainingLife           |-> FMax(Zero(0), FSub(lifeYears, yearsUsed))]

calculateDepreciation(value, lifeYears, yearsUsed) ==
    LET annualDepreciation      == FDiv(value, lifeYears)
        accumulatedDepreciation == FMul(annualDepreciation, yearsUsed)
        bookValue               == FSub(value, accumulatedDepreciation)
        remainingLife           == FMax(Zero(0), FSub(lifeYears, yearsUsed))
    IN  [annualDepreciation      |-> annualDepreciation,
         accumulatedDepreciation |-> accumulatedDepreciation,
         bookValue               |-> bookValue,
         remainingLife           |-> remainingLife]

\* the yearly amount returned as the monthly one
calculateMonthlyDepreciationPerYear(value, lifeYears) == FDiv(value, lifeYears)

calculateMonthlyDepreciation(value, lifeYears) ==
    FDiv(FDiv(value, lifeYears), FromInt(12))

\* the ratio without its guard
calculateCapRateUnguarded(noi, propertyValue) == FDiv(noi, propertyValue)

calculateCapRate(noi, propertyValue) ==
    IF FEq(propertyValue, Zero(0)) THEN Zero(0) ELSE FDiv(noi, propertyValue)

calculateCashOnCash(annualCashFlow, cashInvested) ==
    IF FEq(cashInvested, Zero(0)) THEN Zero(0) ELSE FDiv(annualCashFlow, cashInvested)

calculateLTV(loanAmount, propertyValue) ==
    IF FEq(propertyValue, Zero(0)) THEN Zero(0) ELSE FDiv(loanAmount, propertyValue)

calculateAppreciation(purchasePrice, currentValue, years, err) ==
    LET totalAppreciation   == FSub(currentValue, purchasePrice)
        percentAppreciation == IF FGt(purchasePrice, Zero(0))
                               THEN FDiv(totalAppreciation, purchasePrice)
                               ELSE Zero(0)
        annualizedReturn    == IF FGt(years, Zero(0))
                               THEN FSub(MathPowNumber(FDiv(currentValue, purchasePrice),
                                                       FDiv(FromInt(1), years), err),
                                         FromInt(1))
                               ELSE Zero(0)
    IN  [totalAppreciation   |-> totalAppreciation,
         percentAppreciation |-> percentAppreciation,
         annualizedReturn    |-> annualizedReturn]

\* the discount factor of the year after
DiscountFactorOfNextYear(discountRate, year, err) ==
    MathPow(FAdd(FromInt(1), discountRate), year + 1, err)

\* Math.pow(1 + discountRate, year)
DiscountFactor(discountRate, year, err) ==
    MathPow(FAdd(FromInt(1), discountRate), year, err)

\* cashFlows.forEach: presentValue after the flows from index i on
RECURSIVE PresentValueFrom(_, _, _, _, _)
PresentValueFrom(cashFlows, discountRate, err, i, presentValue) ==
    IF i > Len(cashFlows) THEN presentValue
    ELSE LET pv == FDiv(cashFlows[i], DiscountFactor(discountRate, i, err))
         IN  PresentValueFrom(cashFlows, discountRate, err, i + 1, FAdd(presentValue, pv))

calculateDCF(cashFlows, discountRate, terminalGrowthRate, err) ==
    LET presentValue    == PresentValueFrom(cashFlows, discountRate, err, 1, Zero(0))
        \* cashFlows[-1] is undefined, and undefined * x is NaN
        lastCashFlow    == IF Len(cashFlows) = 0 THEN NaN ELSE cashFlows[Len(cashFlows)]
        terminalValue   == FDiv(FMul(lastCashFlow, FAdd(FromInt(1), terminalGrowthRate)),
                                FSub(discountRate, terminalGrowthRate))
        pvTerminalValue == FDiv(terminalValue,
                                DiscountFactor(discountRate, Len(cashFlows), err))
        enterpriseValue == FAdd(presentValue, pvTerminalValue)
    IN  [pvCashFlows     |-> presentValue,
         terminalValue   |-> terminalValue,
         pvTerminalValue |-> pvTerminalValue,
         enterpriseValue |-> enterpriseValue]

calculateEVtoEBITDA(enterpriseValue, ebitda) ==
    IF FEq(ebitda, Zero(0)) THEN Zero(0) ELSE FDiv(enterpriseValue, ebitda)

calculateEVtoRevenue(enterpriseValue, revenue) ==
    IF FEq(revenue, Zero(0)) THEN Zero(0) ELSE FDiv(enterpriseValue, revenue)

\* rates.forEach: projections after the rates from index i on
RECURSIVE Projections(_, _, _)
Projections(rates, i, projections) ==
    IF i > Len(rates) THEN projections
    ELSE LET last == projections[Len(projections)]
         IN  Projections(rates, i + 1,
                         Append(projections, FMul(last, FAdd(FromInt(1), rates[i]))))

\* the projection with the base year left in
projectRevenueWithBase(baseRevenue, growthRates) ==
    Projections(growthRates, 1, << baseRevenue >>)

projectRevenue(baseRevenue, growthRates) ==
    Tail(Projections(growthRates, 1, << baseRevenue >>))

projectExpenses(baseExpense, inflationRates) ==
    Tail(Projections(inflationRates, 1, << baseExpense >>))

\* the fees without the insurance
TotalFeesWithoutInsurance(adminFee, reserveFund, insurance) == FAdd(adminFee, reserveFund)

\* totalFees = adminFee + reserveFund + insurance
TotalFees(adminFee, reserveFund, insurance) == FAdd(FAdd(adminFee, reserveFund), insurance)

calculateConsortium(creditAmount, adminFee, reserveFund, insurance, termMonths) ==
    LET totalFees      == TotalFees(adminFee, reserveFund, insurance)
        monthlyPayment == FMul(FDiv(creditAmount, termMonths), FAdd(FromInt(1), totalFees))
        totalPaid      == FMul(monthlyPayment, termMonths)
        totalCost      == FSub(totalPaid, creditAmount)
    IN  [monthlyPayment |-> monthlyPayment,
         totalPaid      |-> totalPaid,
         totalCost      |-> totalCost,
         effectiveRate  |-> FDiv(totalCost, creditAmount)]

\* the default rates of calculateCorporateTax
DefaultIrRate == FDiv(FromInt(15), FromInt(100))
DefaultCsllRate == FDiv(FromInt(9), FromInt(100))

\* the tax charged on losses as well
calculateCorporateTaxOnLosses(profit, irRate, csllRate) ==
    LET ir   == FMul(profit, irRate)
        csll == FMul(profit, csllRate)
    IN  [ir |-> ir, csll |-> csll, total |-> FAdd(ir, csll)]

calculateCorporateTax(profit, irRate, csllRate) ==
    LET ir   == IF FGt(profit, Zero(0)) THEN FMul(profit, irRate) ELSE Zero(0)
        csll == IF FGt(profit, Zero(0)) THEN FMul(profit, csllRate) ELSE Zero(0)
    IN  [ir |-> ir, csll |-> csll, total |-> FAdd(ir, csll)]

(***************************************************************************)
(* The state: the arguments of one call of the amortization engine and     *)
(* what the call returned (op names the function called, "none" before     *)
(* the call), and the input record of one call of a statement builder and  *)
(* the record it returned (stmtOp names the builder); and the argument     *)
(* list args of the calls of the other functions, with out[f] what the     *)
(* function f returned once it has been called.                            *)
(***************************************************************************)
VARIABLES principal, annualRate, months, startDate, powErr,
          op, paidMonths, table, value,
          data, stmtOp, result,
          args, out,
          storage, users, pendingUsers, verificationCodes, session,
          nextId, now, call, ret, deletedImoveis, verifiedPairs

loanVars == << principal, annualRate, months, startDate, powErr,
               op, paidMonths, table, value >>
stmtVars == << data, stmtOp, result >>
fnVars == << args, out >>
storeVars == << storage, deletedImoveis >>
authVars == << users, pendingUsers, verificationCodes, session, verifiedPairs >>
appVars == << storeVars, authVars, nextId, now, call, ret >>
vars == << loanVars, stmtVars, fnVars, appVars >>

MaxMonths == 3
MaxMissing == 1

Ratio(p, q) == FDiv(FromInt(p), FromInt(q))

\* 1e-18, a rate below the resolution of a payment
TinyRate == FDiv(FromInt(1), FMul(FromInt(10^9), FromInt(10^9)))
\* 1e16, an amount whose neighbouring Numbers are 2 apart
HugeAmount == FMul(FromInt(10^8), FromInt(10^8))

Principals == { FromInt(1000), FromInt(120000), Ratio(250050, 100) }
Rates == { Zero(0), Ratio(12, 100), Ratio(1, 100), TinyRate }
PowErrs == { -1, 0, 1 }
DefaultDate == [y |-> 2024, mo |-> 0, d |-> 15]
Dates == { dt \in { [y |-> y, mo |-> mo, d |-> d] : y \in {2023, 2024},
                                                    mo \in {0, 1, 10, 11},
                                                    d \in {1, 28, 29, 30, 31} } :
             dt.d <= DaysInMonth(dt.y, dt.mo) }

NoData == [f \in {} |-> Zero(0)]

\* the records over the fields of every, with at most MaxMissing of them left out
Partial(every) ==
    { [f \in present |-> every[f]] :
        present \in { p \in SUBSET DOMAIN every :
                        Cardinality(DOMAIN every \ p) <= MaxMissing } }

Amounts == { Ratio(1, 10), FromInt(1), HugeAmount }
BalanceInputs ==
    { [caixaEquivalentes |-> a1, contasReceber |-> a2, imoveis |-> a3,
       fornecedores |-> l1, financiamentosLongoPrazo |-> l2, capitalSocial |-> l3] :
        a1 \in Amounts, a2 \in Amounts, a3 \in Amounts,
        l1 \in Amounts, l2 \in Amounts, l3 \in { FromInt(1), HugeAmount } }
      \cup
    { [caixaEquivalentes |-> FromInt(1), imoveis |-> FromInt(2),
       depreciacaoAcumulada |-> d, moveisEquipamentos |-> FromInt(1),
       depreciacaoMoveisAcumulada |-> d, capitalSocial |-> FromInt(3),
       lucrosAcumulados |-> e] :
        d \in { Ratio(1, 100), Ratio(1, 2) },
        e \in { Zero(0), FromInt(1), FromInt(-1), Ratio(-1, 100), Ratio(-99, 100) } }

DREInputs ==
    UNION { Partial([receitaBruta |-> rb,
                     taxasPlataforma |-> Ratio(1, 10),
                     impostos |-> Ratio(2, 10),
                     custosVariaveis |-> FromInt(300),
                     despesasFixas |-> Ratio(1, 10),
                     depreciacao |-> FromInt(50),
                     despesasFinanceiras |-> Ratio(2, 10),
                     receitasFinanceiras |-> Ratio(3, 10),
                     ir |-> FromInt(15),
                     csll |-> FromInt(9)]) :
            rb \in { Zero(0), FromInt(1000), FromInt(-500), Ratio(3, 10) } }

CashFlowInputs ==
    UNION { Partial([recebimentos |-> rc,
                     pagamentosOperacionais |-> po,
                     pagamentosImpostos |-> Ratio(1, 10),
                     aquisicoesAtivos |-> FromInt(2500),
                     vendasAtivos |-> Ratio(3, 10),
                     aportesCapital |-> FromInt(100),
                     pagamentosFinanciamentos |-> Ratio(7, 10),
                     distribuicaoLucros |-> FromInt(40),
                     saldoInicial |-> si]) :
            rc \in { Ratio(2, 10), FromInt(5000) },
            po \in { Zero(0), FromInt(1200) },
            si \in { Ratio(1, 10), FromInt(1000) } }
      \cup { [recebimentos |-> Ratio(2, 10), saldoInicial |-> Ratio(1, 10)],
             [recebimentos |-> FromInt(200), saldoInicial |-> FromInt(100)] }

STORAGE_KEYS ==
    [IMOVEIS        |-> "str_imoveis",
     FINANCIAMENTOS |-> "str_financiamentos",
     CONSORCIOS     |-> "str_consorcios",
     REFORMAS       |-> "str_reformas",
     RECEITAS       |-> "str_receitas",
     DESPESAS       |-> "str_despesas",
     PATRIMONIO     |-> "str_patrimonio",
     DOCUMENTOS     |-> "str_documentos"]

\* the keys that hold a list of items
Collections == { STORAGE_KEYS[k] : k \in DOMAIN STORAGE_KEYS }

\* a value that is not there: an absent key of localStorage, undefined
Nothing == << >>

\* a browser in which the application has stored nothing yet
NoStoredItems ==
    /\ storage = [k \in Collections |-> << >>]
    /\ deletedImoveis = {}

NoAccounts ==
    /\ users = << >>
    /\ pendingUsers = << >>
    /\ verificationCodes = << >>
    /\ session = Nothing
    /\ verifiedPairs = {}

NoAppCall ==
    /\ call = [op |-> "none"]
    /\ ret = Nothing

NoBrowserData ==
    /\ NoStoredItems
    /\ NoAccounts
    /\ nextId = 1
    /\ now = 0
    /\ NoAppCall

NoCall ==
    /\ op = "none"
    /\ paidMonths = 0
    /\ table = << >>
    /\ value = Zero(0)

NoStatement ==
    /\ stmtOp = "none"
    /\ result = NoData

NoFunctionCall ==
    /\ args = << >>
    /\ out = NoData

LoanIdle ==
    /\ principal = FromInt(1000)
    /\ annualRate = Zero(0)
    /\ months = 1
    /\ startDate = DefaultDate
    /\ powErr = 0
    /\ NoCall

Init ==
    /\ principal \in Principals
    /\ annualRate \in Rates
    /\ months \in 1..MaxMonths
    /\ startDate = DefaultDate
    /\ powErr \in PowErrs
    /\ NoCall
    /\ data = NoData
    /\ NoStatement
    /\ NoFunctionCall
    /\ NoBrowserData

DateInit ==
    /\ principal = FromInt(1000)
    /\ annualRate = Ratio(12, 100)
    /\ months \in 1..MaxMonths
    /\ startDate \in Dates
    /\ powErr = 0
    /\ NoCall
    /\ data = NoData
    /\ NoStatement
    /\ NoFunctionCall
    /\ NoBrowserData

StmtInit ==
    /\ LoanIdle
    /\ data \in BalanceInputs \cup DREInputs \cup CashFlowInputs
    /\ NoStatement
    /\ NoFunctionCall
    /\ NoBrowserData

Inputs == << principal, annualRate, months, startDate, powErr >>

GenerateSAC ==
    /\ op = "none"
    /\ op' = "generateSACTable"
    /\ table' = generateSACTable(principal, annualRate, months, startDate)
    /\ UNCHANGED << Inputs, paidMonths, value, stmtVars, fnVars, appVars >>

GeneratePRICE ==
    /\ op = "none"
    /\ op' = "generatePRICETable"
    /\ table' = generatePRICETable(principal, annualRate, months, startDate, powErr)
    /\ UNCHANGED << Inputs, paidMonths, value, stmtVars, fnVars, appVars >>

CalculatePRICEPayment ==
    /\ op = "none"
    /\ op' = "calculatePRICEPayment"
    /\ value' = calculatePRICEPayment(principal, annualRate, months, powErr)
    /\ UNCHANGED << Inputs, paidMonths, table, stmtVars, fnVars, appVars >>

GetSACRemaining ==
    /\ op = "none"
    /\ \E k \in 0..months :
         /\ paidMonths' = k
         /\ value' = getSACRemainingBalance(principal, months, k)
    /\ op' = "getSACRemainingBalance"
    /\ UNCHANGED << Inputs, table, stmtVars, fnVars, appVars >>

GetPRICERemaining ==
    /\ op = "none"
    /\ \E k \in 0..months :
         /\ paidMonths' = k
         /\ value' = getPRICERemainingBalance(principal, annualRate, months, k, powErr)
    /\ op' = "getPRICERemainingBalance"
    /\ UNCHANGED << Inputs, table, stmtVars, fnVars, appVars >>

CalculateDRE ==
    /\ stmtOp = "none"
    /\ stmtOp' = "calculateDRE"
    /\ result' = calculateDRE(data)
    /\ UNCHANGED << loanVars, data, fnVars, appVars >>

CalculateBalanceSheet ==
    /\ stmtOp = "none"
    /\ stmtOp' = "calculateBalanceSheet"
    /\ result' = calculateBalanceSheet(data)
    /\ UNCHANGED << loanVars, data, fnVars, appVars >>

CalculateCashFlow ==
    /\ stmtOp = "none"
    /\ stmtOp' = "calculateCashFlow"
    /\ result' = calculateCashFlow(data)
    /\ UNCHANGED << loanVars, data, fnVars, appVars >>

Next ==
    \/ GenerateSAC
    \/ GeneratePRICE
    \/ CalculatePRICEPayment
    \/ GetSACRemaining
    \/ GetPRICERemaining

StmtNext ==
    \/ CalculateDRE
    \/ CalculateBalanceSheet
    \/ CalculateCashFlow

Spec == Init /\ [][Next]_vars
DateSpec == DateInit /\ [][Next]_vars
StmtSpec == StmtInit /\ [][StmtNext]_vars

(***************************************************************************)
(* Calls of the other functions.  Each function is called with the         *)
(* argument list args, at most once in a behaviour.                        *)
(***************************************************************************)
MaxFlows == 2
MaxRates == 2

\* the sequences over S of length at most n
SeqsUpTo(S, n) == UNION { [1..k -> S] : k \in 0..n }

\* the i-th argument, or the default of the parameter when it is left out
Arg(i, default) == IF i <= Len(args) THEN args[i] ELSE default

Called(f) == f \in DOMAIN out
Returns(f, v) ==
    /\ ~Called(f)
    /\ out' = out @@ (f :> v)
    /\ UNCHANGED << args, loanVars, stmtVars, appVars >>

\* everything but the arguments of the functions is as before any call
EngineIdle ==
    /\ principal = FromInt(1000)
    /\ annualRate = Zero(0)
    /\ months = 1
    /\ startDate = DefaultDate
    /\ NoCall
    /\ data = NoData
    /\ NoStatement
    /\ out = NoData
    /\ NoBrowserData

RatioInputs ==
    { << n, d >> : n \in { Zero(0), FromInt(1), FromInt(-7), Ratio(1, 10), FromInt(250000) },
                   d \in { Zero(0), Zero(1), FromInt(3), FromInt(-4), Ratio(3, 10),
                           HugeAmount } }

AppreciationInputs ==
    { << p, c, y >> : p \in { Zero(0), Zero(1), FromInt(100000), FromInt(4), FromInt(-100) },
                      c \in { Zero(0), FromInt(150000), FromInt(9), FromInt(-5) },
                      y \in { FromInt(-1), Zero(0), Ratio(1, 2), FromInt(1), FromInt(2) } }

DCFInputs ==
    { << cf, r, g >> : cf \in SeqsUpTo({ FromInt(100), Ratio(10505, 10) }, MaxFlows),
                       r \in { Ratio(1, 10), Ratio(12, 100), Ratio(1, 4) },
                       g \in { Zero(0), Ratio(2, 100), Ratio(1, 10) } }

ProjectionInputs ==
    { << b, rs >> : b \in { FromInt(1000), Ratio(1, 10), Zero(0) },
                    rs \in SeqsUpTo({ Ratio(5, 100), Ratio(-1, 10), Zero(0) }, MaxRates) }

ConsortiumInputs ==
    { << c, a, r, i, m >> : c \in { FromInt(200000), FromInt(1000), Ratio(25005, 10) },
                            a \in { Ratio(15, 100), Ratio(1, 10), Zero(0) },
                            r \in { Ratio(5, 100), Ratio(2, 10) },
                            i \in { Ratio(2, 100), Zero(0) },
                            m \in { FromInt(100), FromInt(7), FromInt(3), FromInt(1) } }

Profits == { FromInt(100000), FromInt(-5000), Zero(0), Ratio(1, 10), NaN }
TaxInputs ==
    { << p >> : p \in Profits }
      \cup { << p, i >> : p \in Profits, i \in { Ratio(15, 100), Zero(0), Ratio(1, 4) } }
      \cup { << p, i, c >> : p \in Profits, i \in { Ratio(15, 100), Zero(0), Ratio(1, 4) },
                             c \in { Ratio(9, 100), Zero(0), Ratio(1, 10) } }

AssetValues == { FromInt(1000), FromInt(100), FromInt(1), Ratio(25005, 10), Zero(0),
                 FromInt(-50) }
LifeYears == { FromInt(1), FromInt(5), FromInt(10), FromInt(11), FromInt(15), FromInt(25) }
DepreciationInputs ==
    { << v, l >> : v \in AssetValues, l \in LifeYears }
      \cup { << v, l, y >> : v \in AssetValues, l \in LifeYears,
                             y \in { Zero(0), FromInt(3), FromInt(12), FromInt(30) } }
      \cup { << v, l, FAdd(l, d) >> : v \in AssetValues, l \in LifeYears,
                                       d \in { Zero(0), FromInt(1) } }

RatioInit == EngineIdle /\ powErr = 0 /\ args \in RatioInputs
AppreciationInit == EngineIdle /\ powErr \in PowErrs /\ args \in AppreciationInputs
DCFInit == EngineIdle /\ powErr \in PowErrs /\ args \in DCFInputs
ProjectionInit == EngineIdle /\ powErr = 0 /\ args \in ProjectionInputs
ConsortiumInit == EngineIdle /\ powErr = 0 /\ args \in ConsortiumInputs
TaxInit == EngineIdle /\ powErr = 0 /\ args \in TaxInputs
DepreciationInit == EngineIdle /\ powErr = 0 /\ args \in DepreciationInputs

CalculateDepreciation ==
    Returns("calculateDepreciation", calculateDepreciation(args[1], args[2], Arg(3, Zero(0))))

CalculateMonthlyDepreciation ==
    Returns("calculateMonthlyDepreciation", calculateMonthlyDepreciation(args[1], args[2]))

CalculateCapRate == Returns("calculateCapRate", calculateCapRate(args[1], args[2]))
CalculateCashOnCash == Returns("calculateCashOnCash", calculateCashOnCash(args[1], args[2]))
CalculateLTV == Returns("calculateLTV", calculateLTV(args[1], args[2]))
CalculateEVtoEBITDA == Returns("calculateEVtoEBITDA", calculateEVtoEBITDA(args[1], args[2]))
CalculateEVtoRevenue == Returns("calculateEVtoRevenue", calculateEVtoRevenue(args[1], args[2]))

CalculateAppreciation ==
    Returns("calculateAppreciation", calculateAppreciation(args[1], args[2], args[3], powErr))

CalculateDCF == Returns("calculateDCF", calculateDCF(args[1], args[2], args[3], powErr))

ProjectRevenue == Returns("projectRevenue", projectRevenue(args[1], args[2]))
ProjectExpenses == Returns("projectExpenses", projectExpenses(args[1], args[2]))

CalculateConsortium ==
    Returns("calculateConsortium",
            calculateConsortium(args[1], args[2], args[3], args[4], args[5]))

CalculateCorporateTax ==
    Returns("calculateCorporateTax",
            calculateCorporateTax(args[1], Arg(2, DefaultIrRate), Arg(3, DefaultCsllRate)))

RatioNext ==
    \/ CalculateCapRate
    \/ CalculateCashOnCash
    \/ CalculateLTV
    \/ CalculateEVtoEBITDA
    \/ CalculateEVtoRevenue

ProjectionNext ==
    \/ ProjectRevenue
    \/ ProjectExpenses

DepreciationNext ==
    \/ CalculateDepreciation
    \/ CalculateMonthlyDepreciation

RatioSpec == RatioInit /\ [][RatioNext]_vars
AppreciationSpec == AppreciationInit /\ [][CalculateAppreciation]_vars
DCFSpec == DCFInit /\ [][CalculateDCF]_vars
ProjectionSpec == ProjectionInit /\ [][ProjectionNext]_vars
ConsortiumSpec == ConsortiumInit /\ [][CalculateConsortium]_vars
TaxSpec == TaxInit /\ [][CalculateCorporateTax]_vars
DepreciationSpec == DepreciationInit /\ [][DepreciationNext]_vars

(***************************************************************************)
(* Properties of the amortization engine.                                  *)
(***************************************************************************)
RECURSIVE SumFrom(_, _, _)
SumFrom(t, i, acc) ==
    IF i > Len(t) THEN acc ELSE SumFrom(t, i + 1, FAdd(acc, t[i].amortization))

\* the amortization fields of the rows added up in row order
SumAmortization(t) == SumFrom(t, 1, Zero(0))

\* one part in 10^9 of the principal
Tolerance == FMul(principal, FDiv(FromInt(1), FromInt(10^9)))
Within(x, y) == FLe(FAbs(FSub(x, y)), Tolerance)

IsTable == op \in { "generateSACTable", "generatePRICETable" }

\* C1: the amortization fields of the rows of generateSACTable sum to exactly
\* the principal, and the balance of the last row is 0.
C1_SACSumsToPrincipalAndEndsAtZero ==
    op = "generateSACTable" =>
        /\ FEq(SumAmortization(table), principal)
        /\ FEq(table[Len(table)].balance, Zero(0))

\* C2: every row of generatePRICETable carries the payment of
\* calculatePRICEPayment (principal / months at rate 0), and the amortization
\* fields sum to the principal (up to rounding tolerance).
C2_PRICEConstantPaymentAndSum ==
    op = "generatePRICETable" =>
        /\ \A i \in 1..Len(table) :
             FEq(table[i].payment,
                 calculatePRICEPayment(principal, annualRate, months, powErr))
        /\ IsZero(annualRate) =>
             \A i \in 1..Len(table) :
               FEq(table[i].payment, FDiv(principal, FromInt(months)))
        /\ Within(SumAmortization(table), principal)

\* C3: getPRICERemainingBalance returns the principal for paidMonths = 0 (up
\* to rounding tolerance) and exactly 0 for paidMonths = months, at every rate
\* including 0.
C3_PRICERemainingAtBothEnds ==
    op = "getPRICERemainingBalance" =>
        /\ paidMonths = 0 => Within(value, principal)
        /\ paidMonths = months => FEq(value, Zero(0))

\* C4: for k in 1..months the closed-form remaining balance agrees (up to
\* rounding tolerance) with the balance of row k of the schedule, for SAC at
\* every rate and for PRICE at every rate above 0.
C4_ClosedFormAgreesWithSchedule ==
    /\ (op = "getSACRemainingBalance" /\ paidMonths >= 1) =>
          Within(value,
                 generateSACTable(principal, annualRate, months, startDate)[paidMonths].balance)
    /\ (op = "getPRICERemainingBalance" /\ paidMonths >= 1 /\ FGt(annualRate, Zero(0))) =>
          Within(value,
                 generatePRICETable(principal, annualRate, months, startDate,
                                    powErr)[paidMonths].balance)

\* the balance outstanding before installment i of the schedule in table
BalanceBefore(i) == IF i = 1 THEN principal ELSE table[i - 1].balance

\* the rows of a SAC schedule: constant amortization, interest on the balance
\* outstanding before the installment, payment the sum of the two
SACRowsWellFormed ==
    \A i \in 1..Len(table) :
      /\ FEq(table[i].amortization, FDiv(principal, FromInt(months)))
      /\ FEq(table[i].interest, FMul(BalanceBefore(i), FDiv(annualRate, FromInt(12))))
      /\ FEq(table[i].payment, FAdd(table[i].amortization, table[i].interest))

\* C5 as claimed: the rows are well formed and, at every rate above 0, each
\* payment is strictly smaller than the one before it.
C5_SACPaymentsStrictlyDecrease ==
    op = "generateSACTable" =>
        /\ SACRowsWellFormed
        /\ FGt(annualRate, Zero(0)) =>
             \A i \in 1..(Len(table) - 1) : FLt(table[i + 1].payment, table[i].payment)

\* C5 as amended: the rows are well formed, no payment is larger than the one
\* before it, and each is strictly smaller when the annual rate is at least
\* 1e-9.
C5_SACPaymentsDecrease ==
    op = "generateSACTable" =>
        /\ SACRowsWellFormed
        /\ \A i \in 1..(Len(table) - 1) : FLe(table[i + 1].payment, table[i].payment)
        /\ FGe(annualRate, FDiv(FromInt(1), FromInt(10^9))) =>
             \A i \in 1..(Len(table) - 1) : FLt(table[i + 1].payment, table[i].payment)

C5_Witness ==
    /\ op = "generateSACTable"
    /\ Len(table) = MaxMonths
    /\ FGe(annualRate, FDiv(FromInt(1), FromInt(10^9)))
    /\ FLt(table[MaxMonths].payment, table[1].payment)

\* C6: in the schedules of both policies every balance is >= 0, no balance is
\* larger than the one before it, and the balance of the last row is 0.
C6_BalanceFallsToZero ==
    IsTable =>
        /\ \A i \in 1..Len(table) : FGe(table[i].balance, Zero(0))
        /\ \A i \in 1..(Len(table) - 1) : FLe(table[i + 1].balance, table[i].balance)
        /\ FEq(table[Len(table)].balance, Zero(0))

\* C7 as claimed: the schedule has months rows numbered 1..months, and row i is
\* dated exactly i - 1 calendar months after the start date.
C7_RowDatesAdvanceByMonths ==
    IsTable =>
        /\ Len(table) = months
        /\ \A i \in 1..Len(table) :
             /\ table[i].number = i
             /\ monthsBetween(startDate, table[i].date) = i - 1
        /\ table[1].date = startDate

\* the date Date.setMonth gives for the start date moved n months on: the same
\* day of the target month, or, when the target month is too short for that
\* day, the excess days into the month after it
RolledDate(n) ==
    LET idx == startDate.y * 12 + startDate.mo + n
        ty  == idx \div 12
        tm  == idx % 12
        len == IF tm = 1 THEN (IF IsLeap(ty) THEN 29 ELSE 28)
               ELSE IF tm \in {3, 5, 8, 10} THEN 30 ELSE 31
    IN  IF startDate.d <= len
        THEN [y |-> ty, mo |-> tm, d |-> startDate.d]
        ELSE [y |-> (idx + 1) \div 12, mo |-> (idx + 1) % 12, d |-> startDate.d - len]

\* C7 as amended: the schedule has months rows numbered 1..months; row i is
\* dated i - 1 calendar months after the start date when the start day exists
\* in that month, and otherwise in the month after it, on the day that is the
\* excess of the start day over the length of the target month.
C7_RowDatesRollOver ==
    IsTable =>
        /\ Len(table) = months
        /\ \A i \in 1..Len(table) :
             /\ table[i].number = i
             /\ table[i].date = RolledDate(i - 1)
             /\ monthsBetween(startDate, table[i].date) \in { i - 1, i }
             /\ startDate.d <= 28 => monthsBetween(startDate, table[i].date) = i - 1
        /\ table[1].date = startDate

C7_Witness ==
    /\ IsTable
    /\ Len(table) >= 2
    /\ startDate.d = 31
    /\ \E i \in 2..Len(table) : monthsBetween(startDate, table[i].date) = i
    /\ \E i \in 2..Len(table) : table[i].date.y > startDate.y

(***************************************************************************)
(* Properties of the statement builders.                                   *)
(***************************************************************************)
In(f) == Field(data, f)

\* the exact sums of the two sides of the balance sheet as put in
ExactAssets ==
    LET plus  == << "caixaEquivalentes", "contasReceber", "outrosAtivosCirculantes",
                    "imoveis", "moveisEquipamentos", "outrosAtivosNaoCirculantes" >>
        minus == << "depreciacaoAcumulada", "depreciacaoMoveisAcumulada" >>
        a     == [i \in 0..6 |-> IF i = 0 THEN Exact(Zero(0)) ELSE Exact(In(plus[i]))]
        s6    == ExactAdd(ExactAdd(ExactAdd(a[1], a[2]), ExactAdd(a[3], a[4])),
                          ExactAdd(a[5], a[6]))
    IN  ExactAdd(s6, ExactNeg(ExactAdd(Exact(In(minus[1])), Exact(In(minus[2])))))

ExactLiabilitiesAndEquity ==
    LET fs == << "fornecedores", "impostosPagar", "financiamentosCurtoPrazo",
                 "outrosPassivosCirculantes", "financiamentosLongoPrazo",
                 "outrosPassivosNaoCirculantes", "capitalSocial", "reservas",
                 "lucrosAcumulados" >>
        x  == [i \in 1..9 |-> Exact(In(fs[i]))]
    IN  ExactAdd(ExactAdd(ExactAdd(ExactAdd(x[1], x[2]), ExactAdd(x[3], x[4])),
                          ExactAdd(ExactAdd(x[5], x[6]), ExactAdd(x[7], x[8]))),
                 x[9])

\* the totals of the balance sheet are the sums of the inputs, and balanced
\* says whether the two sides are less than 0.01 apart
BalanceSheetTotals ==
    /\ FEq(result.ativo.total,
           FAdd(FAdd(FAdd(In("caixaEquivalentes"), In("contasReceber")),
                     In("outrosAtivosCirculantes")),
                FAdd(FAdd(FSub(In("imoveis"), In("depreciacaoAcumulada")),
                          FSub(In("moveisEquipamentos"), In("depreciacaoMoveisAcumulada"))),
                     In("outrosAtivosNaoCirculantes"))))
    /\ FEq(result.passivoMaisPL,
           FAdd(FAdd(FAdd(FAdd(FAdd(In("fornecedores"), In("impostosPagar")),
                               In("financiamentosCurtoPrazo")),
                          In("outrosPassivosCirculantes")),
                     FAdd(In("financiamentosLongoPrazo"), In("outrosPassivosNaoCirculantes"))),
                FAdd(FAdd(In("capitalSocial"), In("reservas")), In("lucrosAcumulados"))))
    /\ result.balanced = FLt(FAbs(FSub(result.ativo.total, result.passivoMaisPL)),
                             FDiv(FromInt(1), FromInt(100)))

\* C8 as claimed: balanced is TRUE exactly when the two totals are less than
\* 0.01 apart, and it is TRUE whenever the asset inputs and the liability and
\* equity inputs add up to the same amount.
C8_BalancedWheneverSidesAddUp ==
    stmtOp = "calculateBalanceSheet" =>
        /\ BalanceSheetTotals
        /\ ExactEq(ExactAssets, ExactLiabilitiesAndEquity) => result.balanced

\* every figure put in is below 10^9 in magnitude
OrdinaryAmounts == \A f \in DOMAIN data : FLt(FAbs(data[f]), FromInt(10^9))

\* C8 as amended: balanced is TRUE exactly when the two totals are less than
\* 0.01 apart, and it is TRUE whenever the two sides add up to the same amount
\* and every figure is below 10^9 in magnitude.
C8_BalancedWhenOrdinarySidesAddUp ==
    stmtOp = "calculateBalanceSheet" =>
        /\ BalanceSheetTotals
        /\ (OrdinaryAmounts /\ ExactEq(ExactAssets, ExactLiabilitiesAndEquity)) =>
              result.balanced

C8_Witness ==
    /\ stmtOp = "calculateBalanceSheet"
    /\ OrdinaryAmounts
    /\ ExactEq(ExactAssets, ExactLiabilitiesAndEquity)
    /\ ~FEq(result.ativo.total, result.passivoMaisPL)
    /\ result.balanced

\* the totals of the cash-flow statement as the builder adds them up
CashFlowTotals ==
    /\ FEq(result.fluxoTotal,
           FAdd(FAdd(result.operacional.total, result.investimento.total),
                result.financiamento.total))
    /\ FEq(result.saldoFinal, FAdd(result.saldoInicial, result.fluxoTotal))
    /\ FEq(result.saldoInicial, In("saldoInicial"))

\* C9 as claimed: fluxoTotal is the sum of the three activity totals,
\* saldoFinal = saldoInicial + fluxoTotal, and saldoFinal - saldoInicial is
\* exactly fluxoTotal.
C9_ClosingMinusOpeningIsFlowExactly ==
    stmtOp = "calculateCashFlow" =>
        /\ CashFlowTotals
        /\ FEq(FSub(result.saldoFinal, result.saldoInicial), result.fluxoTotal)

\* Number.EPSILON, 2^-52
Epsilon == [k |-> "num", s |-> 0, m |-> BShl(<< 1 >>, MantBits - 1), e |-> 1 - 2 * MantBits]

\* the addition saldoInicial + fluxoTotal needed no rounding
ClosingExact ==
    ExactEq(ExactAdd(Exact(result.saldoInicial), Exact(result.fluxoTotal)),
            Exact(result.saldoFinal))

\* C9 as amended: fluxoTotal is the sum of the three activity totals and
\* saldoFinal = saldoInicial + fluxoTotal as Number additions;
\* saldoFinal - saldoInicial is exactly fluxoTotal when that last addition
\* needed no rounding, and otherwise is within
\* Number.EPSILON * (|saldoInicial| + |fluxoTotal|) of it.
C9_ClosingMinusOpeningIsFlowRounded ==
    stmtOp = "calculateCashFlow" =>
        /\ CashFlowTotals
        /\ ClosingExact =>
             FEq(FSub(result.saldoFinal, result.saldoInicial), result.fluxoTotal)
        /\ FLe(FAbs(FSub(FSub(result.saldoFinal, result.saldoInicial), result.fluxoTotal)),
               FMul(Epsilon, FAdd(FAbs(result.saldoInicial), FAbs(result.fluxoTotal))))

C9_Witness ==
    /\ stmtOp = "calculateCashFlow"
    /\ ~ClosingExact
    /\ ~IsZero(result.saldoInicial)
    /\ ~FEq(FSub(result.saldoFinal, result.saldoInicial), result.fluxoTotal)

\* C10: every subtotal of the record of calculateDRE is derived from the
\* inputs by the pipeline deducoes, receitaLiquida, lucroBruto, ebitda, ebit,
\* lair, lucroLiquido.
C10_DREPipeline ==
    stmtOp = "calculateDRE" =>
        /\ FEq(result.deducoes, FAdd(In("taxasPlataforma"), In("impostos")))
        /\ FEq(result.receitaLiquida, FSub(In("receitaBruta"), result.deducoes))
        /\ FEq(result.lucroBruto, FSub(result.receitaLiquida, In("custosVariaveis")))
        /\ FEq(result.ebitda, FSub(result.lucroBruto, In("despesasFixas")))
        /\ FEq(result.ebit, FSub(result.ebitda, In("depreciacao")))
        /\ FEq(result.lair,
               FAdd(FSub(result.ebit, In("despesasFinanceiras")), In("receitasFinanceiras")))
        /\ FEq(result.lucroLiquido, FSub(FSub(result.lair, In("ir")), In("csll")))

C10_Witness ==
    /\ stmtOp = "calculateDRE"
    /\ { "receitaBruta", "taxasPlataforma", "impostos", "custosVariaveis", "despesasFixas",
         "depreciacao", "despesasFinanceiras", "receitasFinanceiras", "ir", "csll" }
         \subseteq DOMAIN data
    /\ FGt(result.lucroLiquido, Zero(0))
    /\ FLt(result.lucroLiquido, result.lair)
    /\ FLt(result.lair, result.receitaLiquida)

\* C11: the three margins of calculateDRE are lucroBruto, ebitda and
\* lucroLiquido divided by receitaBruta whenever receitaBruta is not 0, be it
\* positive or negative, and all three are 0 when receitaBruta is 0.
C11_MarginsAreLinesOverRevenue ==
    stmtOp = "calculateDRE" =>
        IF FEq(In("receitaBruta"), Zero(0))
        THEN /\ FEq(result.margemBruta, Zero(0))
             /\ FEq(result.margemEbitda, Zero(0))
             /\ FEq(result.margemLiquida, Zero(0))
        ELSE /\ FEq(result.margemBruta, FDiv(result.lucroBruto, In("receitaBruta")))
             /\ FEq(result.margemEbitda, FDiv(result.ebitda, In("receitaBruta")))
             /\ FEq(result.margemLiquida, FDiv(result.lucroLiquido, In("receitaBruta")))

\* the named fields of the three statement builders
DREFields ==
    { "receitaBruta", "taxasPlataforma", "impostos", "custosVariaveis", "despesasFixas",
      "depreciacao", "despesasFinanceiras", "receitasFinanceiras", "ir", "csll" }
BalanceSheetFields ==
    { "caixaEquivalentes", "contasReceber", "outrosAtivosCirculantes", "imoveis",
      "depreciacaoAcumulada", "moveisEquipamentos", "depreciacaoMoveisAcumulada",
      "outrosAtivosNaoCirculantes", "fornecedores", "impostosPagar",
      "financiamentosCurtoPrazo", "outrosPassivosCirculantes", "financiamentosLongoPrazo",
      "outrosPassivosNaoCirculantes", "capitalSocial", "reservas", "lucrosAcumulados" }
CashFlowFields ==
    { "recebimentos", "pagamentosOperacionais", "pagamentosImpostos", "aquisicoesAtivos",
      "vendasAtivos", "aportesCapital", "pagamentosFinanciamentos", "distribuicaoLucros",
      "saldoInicial" }

\* the input record with each field of fields it leaves out supplied as 0
SuppliedAsZero(fields) ==
    [f \in fields |-> IF f \in DOMAIN data THEN data[f] ELSE Zero(0)]

\* C12: a statement builder called with some of its named fields left out
\* returns what it returns when those fields are supplied as 0.
C12_MissingFieldsCountAsZero ==
    /\ stmtOp = "calculateDRE" => result = calculateDRE(SuppliedAsZero(DREFields))
    /\ stmtOp = "calculateBalanceSheet" =>
          result = calculateBalanceSheet(SuppliedAsZero(BalanceSheetFields))
    /\ stmtOp = "calculateCashFlow" =>
          result = calculateCashFlow(SuppliedAsZero(CashFlowFields))

C12_Witness ==
    /\ stmtOp = "calculateCashFlow"
    /\ "recebimentos" \in DOMAIN data
    /\ CashFlowFields \ DOMAIN data # {}
    /\ ~IsZero(result.saldoFinal)

\* C13: each ratio function returns 0 when its denominator is 0 and
\* numerator / denominator for every other denominator.
C13_RatiosGuardZeroDenominator ==
    \A f \in DOMAIN out :
        f \in { "calculateCapRate", "calculateCashOnCash", "calculateLTV",
                "calculateEVtoEBITDA", "calculateEVtoRevenue" } =>
            IF FEq(args[2], Zero(0)) THEN out[f] = Zero(0)
                                     ELSE out[f] = FDiv(args[1], args[2])

C13_Witness ==
    /\ { "calculateCapRate", "calculateCashOnCash", "calculateLTV",
         "calculateEVtoEBITDA", "calculateEVtoRevenue" } \subseteq DOMAIN out
    /\ ~FEq(args[2], Zero(0))
    /\ ~IsZero(out["calculateCapRate"])

\* C14: with purchasePrice = 0 calculateAppreciation returns
\* percentAppreciation = 0 and annualizedReturn = 0 for any currentValue and
\* any years, and with years <= 0 it returns annualizedReturn = 0.
C14_AppreciationGuardsEveryDivision ==
    Called("calculateAppreciation") =>
        LET r == out["calculateAppreciation"]
        IN  /\ FEq(args[1], Zero(0)) =>
                 /\ FEq(r.percentAppreciation, Zero(0))
                 /\ FEq(r.annualizedReturn, Zero(0))
            /\ FLe(args[3], Zero(0)) => FEq(r.annualizedReturn, Zero(0))

\* the sum over t = i..Len(flows) of flows[t] / (1 + rate)^t, added in order
RECURSIVE DiscountedSum(_, _, _, _)
DiscountedSum(flows, rate, i, acc) ==
    IF i > Len(flows) THEN acc
    ELSE DiscountedSum(flows, rate, i + 1,
                       FAdd(acc, FDiv(flows[i],
                                      MathPow(FAdd(FromInt(1), rate), i, powErr))))

\* the four figures of calculateDCF are the stated expressions of the arguments
DCFFigures ==
    LET r     == out["calculateDCF"]
        flows == args[1]
        rate  == args[2]
        g     == args[3]
        N     == Len(flows)
    IN  /\ FEq(r.pvCashFlows, DiscountedSum(flows, rate, 1, Zero(0)))
        /\ FEq(r.terminalValue,
               FDiv(FMul(flows[N], FAdd(FromInt(1), g)), FSub(rate, g)))
        /\ FEq(r.pvTerminalValue,
               FDiv(r.terminalValue, MathPow(FAdd(FromInt(1), rate), N, powErr)))
        /\ FEq(r.enterpriseValue, FAdd(r.pvCashFlows, r.pvTerminalValue))

\* X / (1 + r) + X / (r * (1 + r))
SingleFlowClosedForm ==
    LET X == args[1][1]
        r == args[2]
    IN  FAdd(FDiv(X, FAdd(FromInt(1), r)), FDiv(X, FMul(r, FAdd(FromInt(1), r))))

DCFApplies ==
    /\ Called("calculateDCF")
    /\ Len(args[1]) >= 1
    /\ FGt(args[2], args[3])

\* C15 as claimed: for a non-empty cash-flow sequence and discountRate >
\* terminalGrowthRate, pvCashFlows is the sum of flow_t / (1 + discountRate)^t,
\* terminalValue = lastFlow * (1 + terminalGrowthRate) / (discountRate -
\* terminalGrowthRate), pvTerminalValue = terminalValue / (1 + discountRate)^N
\* and enterpriseValue = pvCashFlows + pvTerminalValue; for a single flow X
\* and terminalGrowthRate = 0 the enterprise value is X/(1+r) + X/(r*(1+r)).
C15_DCFFiguresAndClosedForm ==
    DCFApplies =>
        /\ DCFFigures
        /\ (Len(args[1]) = 1 /\ IsZero(args[3])) =>
              FEq(out["calculateDCF"].enterpriseValue, SingleFlowClosedForm)

\* x and y are equal to within one part in 10^9 of the larger
CloseTo(x, y) ==
    FLe(FAbs(FSub(x, y)),
        FMul(FDiv(FromInt(1), FromInt(10^9)), FMax(FAbs(x), FAbs(y))))

\* C15 as amended: the four figures are the stated Number expressions, and
\* for a single flow X and terminalGrowthRate = 0 the enterprise value equals
\* X/(1+r) + X/(r*(1+r)) up to rounding (one part in 10^9).
C15_DCFFiguresAndClosedFormRounded ==
    DCFApplies =>
        /\ DCFFigures
        /\ (Len(args[1]) = 1 /\ IsZero(args[3])) =>
              CloseTo(out["calculateDCF"].enterpriseValue, SingleFlowClosedForm)

C15_Witness ==
    /\ DCFApplies
    /\ Len(args[1]) = 1
    /\ IsZero(args[3])
    /\ ~FEq(out["calculateDCF"].enterpriseValue, SingleFlowClosedForm)
    /\ FGt(out["calculateDCF"].pvTerminalValue, out["calculateDCF"].pvCashFlows)

\* value_k = value_(k-1) * (1 + rate_k) with value_0 = base
ProjectionOf(projected) ==
    LET base  == args[1]
        rates == args[2]
    IN  /\ Len(projected) = Len(rates)
        /\ \A k \in 1..Len(rates) :
              FEq(projected[k],
                  FMul(IF k = 1 THEN base ELSE projected[k - 1],
                       FAdd(FromInt(1), rates[k])))

\* C16: projectRevenue and projectExpenses return one value per rate, the
\* base not included, each the value before it times (1 + rate), and both
\* return the same for the same arguments.
C16_ProjectionsCompound ==
    /\ Called("projectRevenue") => ProjectionOf(out["projectRevenue"])
    /\ Called("projectExpenses") => ProjectionOf(out["projectExpenses"])
    /\ (Called("projectRevenue") /\ Called("projectExpenses")) =>
          out["projectRevenue"] = out["projectExpenses"]

C16_Witness ==
    /\ Called("projectRevenue")
    /\ Called("projectExpenses")
    /\ Len(args[2]) = MaxRates
    /\ ~FEq(out["projectRevenue"][MaxRates], args[1])
    /\ ~FEq(out["projectRevenue"][MaxRates], out["projectRevenue"][1])

\* the figures of calculateConsortium are the stated expressions
ConsortiumFigures ==
    LET r == out["calculateConsortium"]
    IN  /\ FEq(r.monthlyPayment,
               FMul(FDiv(args[1], args[5]),
                    FAdd(FromInt(1), FAdd(FAdd(args[2], args[3]), args[4]))))
        /\ FEq(r.totalPaid, FMul(r.monthlyPayment, args[5]))
        /\ FEq(r.totalCost, FSub(r.totalPaid, args[1]))
        /\ FEq(r.effectiveRate, FDiv(r.totalCost, args[1]))

ConsortiumApplies ==
    /\ Called("calculateConsortium")
    /\ FGt(args[1], Zero(0))
    /\ FGe(args[5], FromInt(1))

\* C17 as claimed: monthlyPayment = (creditAmount / termMonths) * (1 + the
\* three fees), totalPaid = monthlyPayment * termMonths, totalCost = totalPaid
\* - creditAmount, effectiveRate = totalCost / creditAmount, and effectiveRate
\* equals the sum of the three fee rates.
C17_EffectiveRateIsFeeSum ==
    ConsortiumApplies =>
        /\ ConsortiumFigures
        /\ FEq(out["calculateConsortium"].effectiveRate,
               FAdd(FAdd(args[2], args[3]), args[4]))

\* C17 as amended: the four figures are the stated Number expressions, and
\* effectiveRate equals the sum of the three fee rates up to rounding: within
\* 10^-9 * (1 + the sum).
C17_EffectiveRateIsFeeSumRounded ==
    ConsortiumApplies =>
        /\ ConsortiumFigures
        /\ LET fees == FAdd(FAdd(args[2], args[3]), args[4])
           IN  FLe(FAbs(FSub(out["calculateConsortium"].effectiveRate, fees)),
                   FMul(FDiv(FromInt(1), FromInt(10^9)), FAdd(FromInt(1), FAbs(fees))))

C17_Witness ==
    /\ ConsortiumApplies
    /\ ~FEq(out["calculateConsortium"].effectiveRate, FAdd(FAdd(args[2], args[3]), args[4]))
    /\ FGt(out["calculateConsortium"].totalCost, Zero(0))

\* C18: calculateCorporateTax returns ir = profit * irRate and csll = profit *
\* csllRate when profit > 0 and ir = csll = 0 otherwise; total = ir + csll;
\* with non-negative rates no component is negative.
C18_TaxOnlyOnProfit ==
    Called("calculateCorporateTax") =>
        LET r        == out["calculateCorporateTax"]
            profit   == args[1]
            irRate   == IF Len(args) >= 2 THEN args[2] ELSE FDiv(FromInt(15), FromInt(100))
            csllRate == IF Len(args) >= 3 THEN args[3] ELSE FDiv(FromInt(9), FromInt(100))
        IN  /\ IF FGt(profit, Zero(0))
               THEN FEq(r.ir, FMul(profit, irRate)) /\ FEq(r.csll, FMul(profit, csllRate))
               ELSE FEq(r.ir, Zero(0)) /\ FEq(r.csll, Zero(0))
            /\ FEq(r.total, FAdd(r.ir, r.csll))
            /\ (FGe(irRate, Zero(0)) /\ FGe(csllRate, Zero(0))) =>
                  FGe(r.ir, Zero(0)) /\ FGe(r.csll, Zero(0)) /\ FGe(r.total, Zero(0))

C18_Witness ==
    /\ Called("calculateCorporateTax")
    /\ Len(args) = 1
    /\ FEq(out["calculateCorporateTax"].total, FromInt(24000))

\* the arguments of the depreciation functions
AssetValue == args[1]
AssetLife == args[2]
YearsUsed == IF Len(args) >= 3 THEN args[3] ELSE Zero(0)

\* C19 as claimed: for lifeYears >= 1 the annualDepreciation of
\* calculateDepreciation times lifeYears is the asset value, and
\* calculateMonthlyDepreciation times 12 is that annualDepreciation.
C19_DepreciationGivesBackValue ==
    FGe(AssetLife, FromInt(1)) =>
        /\ Called("calculateDepreciation") =>
              FEq(FMul(out["calculateDepreciation"].annualDepreciation, AssetLife),
                  AssetValue)
        /\ (Called("calculateDepreciation") /\ Called("calculateMonthlyDepreciation")) =>
              FEq(FMul(out["calculateMonthlyDepreciation"], FromInt(12)),
                  out["calculateDepreciation"].annualDepreciation)

\* C19 as amended: both equalities hold up to rounding (one part in 10^9).
C19_DepreciationGivesBackValueRounded ==
    FGe(AssetLife, FromInt(1)) =>
        /\ Called("calculateDepreciation") =>
              CloseTo(FMul(out["calculateDepreciation"].annualDepreciation, AssetLife),
                      AssetValue)
        /\ (Called("calculateDepreciation") /\ Called("calculateMonthlyDepreciation")) =>
              CloseTo(FMul(out["calculateMonthlyDepreciation"], FromInt(12)),
                      out["calculateDepreciation"].annualDepreciation)

C19_Witness ==
    /\ Called("calculateDepreciation")
    /\ Called("calculateMonthlyDepreciation")
    /\ FGt(AssetLife, FromInt(1))
    /\ ~FEq(FMul(out["calculateMonthlyDepreciation"], FromInt(12)),
            out["calculateDepreciation"].annualDepreciation)

\* the figures of calculateDepreciation are the stated expressions, and
\* remainingLife is never negative
DepreciationFigures ==
    LET r == out["calculateDepreciation"]
    IN  /\ FEq(r.accumulatedDepreciation, FMul(r.annualDepreciation, YearsUsed))
        /\ FEq(r.bookValue, FSub(AssetValue, r.accumulatedDepreciation))
        /\ FEq(r.remainingLife,
               IF FGt(FSub(AssetLife, YearsUsed), Zero(0)) THEN FSub(AssetLife, YearsUsed)
                                                           ELSE Zero(0))
        /\ FGe(r.remainingLife, Zero(0))

C21_DCFOfNoFlowsIsZero ==
    (Called("calculateDCF") /\ Len(args[1]) = 0) =>
        /\ FEq(out["calculateDCF"].pvCashFlows, Zero(0))
        /\ FEq(out["calculateDCF"].terminalValue, Zero(0))
        /\ FEq(out["calculateDCF"].pvTerminalValue, Zero(0))
        /\ FEq(out["calculateDCF"].enterpriseValue, Zero(0))


\* ---------------------------------------------------------------------
\* DataManager: the collections kept in localStorage.  An item is a
\* function from the names of its fields to their values; an id is the
\* number of the generateId call that drew it.

MaxIds == 3
MaxItems == 4

Has(item, field) == field \in DOMAIN item

\* Utils.generateId: Date.now() and nine random digits, a fresh id each call
generateId == nextId

getAll(storageKey) == storage[storageKey]

\* Array.prototype.findIndex on the id, 0 for the -1 of "not found"
findIndex(items, id) ==
    IF \E i \in 1..Len(items) : items[i].id = id
    THEN CHOOSE i \in 1..Len(items) :
            /\ items[i].id = id
            /\ \A j \in 1..(i - 1) : items[j].id # id
    ELSE 0

\* item.field = v
Assign(item, field, v) == (field :> v) @@ item

saveAlwaysAppends(items, item, t) ==
    LET created == Assign(Assign(item, "id", IF Has(item, "id") THEN item.id ELSE generateId),
                          "createdAt", t)
    IN  [items |-> Append(items, created), item |-> created]

\* DataManager.save on the list of a collection: the list to store and the
\* item returned
save(items, item, t) ==
    IF ~Has(item, "id")
    THEN LET created == Assign(Assign(item, "id", generateId), "createdAt", t)
         IN  [items |-> Append(items, created), item |-> created]
    ELSE LET index == findIndex(items, item.id)
         IN  IF index # 0
             THEN LET updated == Assign(item, "updatedAt", t)
                  IN  [items |-> [items EXCEPT ![index] = updated], item |-> updated]
             ELSE LET created == Assign(item, "createdAt", t)
                  IN  [items |-> Append(items, created), item |-> created]

\* DataManager.delete on the list of a collection
delete(items, id) == SelectSeq(items, LAMBDA item : item.id # id)

getByImovel(items, imovelId) ==
    SelectSeq(items, LAMBDA item : Has(item, "imovelId") /\ item.imovelId = imovelId)

\* getXByImovel(imovelId).forEach(x => this.deleteX(x.id))
RECURSIVE deleteEach(_, _)
deleteEach(items, doomed) ==
    IF doomed = << >>
    THEN items
    ELSE deleteEach(delete(items, Head(doomed).id), Tail(doomed))

deleteByImovel(items, imovelId) == deleteEach(items, getByImovel(items, imovelId))

deleteImovelOnly(store, id) ==
    [store EXCEPT ![STORAGE_KEYS.IMOVEIS] = delete(@, id)]

deleteImovel(store, id) ==
    [store EXCEPT ![STORAGE_KEYS.FINANCIAMENTOS] = deleteByImovel(@, id),
                  ![STORAGE_KEYS.REFORMAS]       = deleteByImovel(@, id),
                  ![STORAGE_KEYS.RECEITAS]       = deleteByImovel(@, id),
                  ![STORAGE_KEYS.DESPESAS]       = deleteByImovel(@, id),
                  ![STORAGE_KEYS.IMOVEIS]        = delete(@, id)]

\* the ids drawn so far
DrawnIds == 1..(nextId - 1)

RECURSIVE SumLen(_, _)
SumLen(store, keys) ==
    IF keys = {}
    THEN 0
    ELSE LET k == CHOOSE x \in keys : TRUE
         IN  Len(store[k]) + SumLen(store, keys \ {k})

StoredItems == SumLen(storage, Collections)

\* the items a caller passes to save: with or without an id, with or
\* without the id of a property
ItemInputs ==
    { Nothing } \cup { ("id" :> i) : i \in DrawnIds }
                \cup { ("imovelId" :> p) : p \in DrawnIds }
                \cup { ("id" :> i) @@ ("imovelId" :> p) : i \in DrawnIds, p \in DrawnIds }

Save(storageKey, item) ==
    /\ Has(item, "id") \/ nextId <= MaxIds
    /\ LET saved == save(getAll(storageKey), item, now)
       IN  /\ Len(saved.items) > Len(getAll(storageKey)) => StoredItems < MaxItems
           /\ storage' = [storage EXCEPT ![storageKey] = saved.items]
           /\ ret' = saved.item
    /\ nextId' = IF Has(item, "id") THEN nextId ELSE nextId + 1
    /\ call' = [op |-> "save", key |-> storageKey, item |-> item]
    /\ UNCHANGED << loanVars, stmtVars, fnVars, authVars, now, deletedImoveis >>

Delete(storageKey, id) ==
    /\ storage' = [storage EXCEPT ![storageKey] = delete(@, id)]
    /\ call' = [op |-> "delete", key |-> storageKey, id |-> id]
    /\ ret' = TRUE
    /\ UNCHANGED << loanVars, stmtVars, fnVars, authVars, nextId, now, deletedImoveis >>

DeleteImovel ==
    \E id \in DrawnIds :
        /\ storage' = deleteImovel(storage, id)
        /\ deletedImoveis' = deletedImoveis \cup { id }
        /\ call' = [op |-> "deleteImovel", id |-> id]
        /\ ret' = TRUE
        /\ UNCHANGED << loanVars, stmtVars, fnVars, authVars, nextId, now >>

\* the ids of the items of a collection
IdsOf(items) == { items[i].id : i \in 1..Len(items) }

\* the items of the forms: a new item has no id and an edited one has the
\* id it was loaded with; a property carries no imovelId, a record of a
\* property carries one
FormInputs(storageKey) ==
    { item \in ItemInputs : Has(item, "id") => item.id \in IdsOf(getAll(storageKey)) }
ImovelInputs == { item \in FormInputs(STORAGE_KEYS.IMOVEIS) : ~Has(item, "imovelId") }
RecordInputs(storageKey) == { item \in FormInputs(storageKey) : Has(item, "imovelId") }

SaveImovel == \E item \in ImovelInputs : Save(STORAGE_KEYS.IMOVEIS, item)
SaveFinanciamento ==
    \E item \in RecordInputs(STORAGE_KEYS.FINANCIAMENTOS) : Save(STORAGE_KEYS.FINANCIAMENTOS, item)
SaveConsorcio == \E item \in ItemInputs : Save(STORAGE_KEYS.CONSORCIOS, item)
SaveReforma ==
    \E item \in RecordInputs(STORAGE_KEYS.REFORMAS) : Save(STORAGE_KEYS.REFORMAS, item)
SaveReceita ==
    \E item \in RecordInputs(STORAGE_KEYS.RECEITAS) : Save(STORAGE_KEYS.RECEITAS, item)
SaveDespesa ==
    \E item \in RecordInputs(STORAGE_KEYS.DESPESAS) : Save(STORAGE_KEYS.DESPESAS, item)
SavePatrimonio ==
    \E item \in RecordInputs(STORAGE_KEYS.PATRIMONIO) : Save(STORAGE_KEYS.PATRIMONIO, item)
SaveDocumento ==
    \E item \in RecordInputs(STORAGE_KEYS.DOCUMENTOS) : Save(STORAGE_KEYS.DOCUMENTOS, item)

DeleteFinanciamento == \E id \in DrawnIds : Delete(STORAGE_KEYS.FINANCIAMENTOS, id)
DeleteConsorcio == \E id \in DrawnIds : Delete(STORAGE_KEYS.CONSORCIOS, id)
DeleteDocumento == \E id \in DrawnIds : Delete(STORAGE_KEYS.DOCUMENTOS, id)

StoreInit ==
    /\ LoanIdle
    /\ data = NoData
    /\ NoStatement
    /\ NoFunctionCall
    /\ NoBrowserData

\* one collection under every order of save and delete
CrudNext == SaveConsorcio \/ DeleteConsorcio
CrudSpec == StoreInit /\ [][CrudNext]_vars

\* the properties and the records that point at them
PropertyNext ==
    \/ SaveImovel
    \/ SaveFinanciamento
    \/ SaveReforma
    \/ SaveReceita
    \/ SaveDespesa
    \/ SavePatrimonio
    \/ SaveDocumento
    \/ DeleteFinanciamento
    \/ DeleteDocumento
    \/ DeleteImovel
PropertySpec == StoreInit /\ [][PropertyNext]_vars

\* the collections whose records deleteImovel is said to remove
CascadeKeys ==
    { STORAGE_KEYS.FINANCIAMENTOS, STORAGE_KEYS.REFORMAS,
      STORAGE_KEYS.RECEITAS, STORAGE_KEYS.DESPESAS }

\* the collections whose records name a property
RecordKeys == CascadeKeys \cup { STORAGE_KEYS.PATRIMONIO, STORAGE_KEYS.DOCUMENTOS }

BelongsTo(item, id) == Has(item, "imovelId") /\ item.imovelId = id

\* C22: after DataManager.deleteImovel(id) the property id and every
\* financiamento, reforma, receita and despesa whose imovelId is id are gone
\* from storage, and the records of other properties and the other
\* properties are as they were.
C22_DeleteImovelCascades ==
    [][call'.op = "deleteImovel" =>
          LET id == call'.id
          IN  /\ id \notin IdsOf(storage'[STORAGE_KEYS.IMOVEIS])
              /\ storage'[STORAGE_KEYS.IMOVEIS] =
                    SelectSeq(storage[STORAGE_KEYS.IMOVEIS], LAMBDA i : i.id # id)
              /\ \A k \in CascadeKeys :
                    /\ \A n \in 1..Len(storage'[k]) : ~BelongsTo(storage'[k][n], id)
                    /\ storage'[k] = SelectSeq(storage[k], LAMBDA r : ~BelongsTo(r, id))]_vars

\* deleteImovel has removed a property and its record, and the record of
\* another property is still stored
C22_Witness ==
    /\ call.op = "deleteImovel"
    /\ StoredItems = nextId - 3
    /\ \E k \in CascadeKeys : \E n \in 1..Len(storage[k]) :
          Has(storage[k][n], "imovelId") /\ storage[k][n].imovelId # call.id

\* C23: after any sequence of saves and deletes no stored financiamento,
\* reforma, receita, despesa, patrimonio or documento has an imovelId that
\* names a property deleted with deleteImovel.
C23_NoRecordOfDeletedImovel ==
    \A k \in RecordKeys : \A n \in 1..Len(storage[k]) : \A id \in deletedImoveis :
        ~BelongsTo(storage[k][n], id)

NoDuplicateIds ==
    \A k \in Collections : \A i, j \in 1..Len(storage[k]) :
        storage[k][i].id = storage[k][j].id => i = j

\* the fields of the item passed to save are the fields of the item stored
Carries(stored, item) == \A f \in DOMAIN item : Has(stored, f) /\ stored[f] = item[f]

SaveEffect ==
    call'.op = "save" =>
        LET item  == call'.item
            old   == storage[call'.key]
            new   == storage'[call'.key]
        IN  IF Has(item, "id") /\ item.id \in IdsOf(old)
            THEN /\ Len(new) = Len(old)
                 /\ \A n \in 1..Len(old) :
                       IF old[n].id = item.id
                       THEN new[n].id = item.id /\ Carries(new[n], item)
                       ELSE new[n] = old[n]
            ELSE /\ Len(new) = Len(old) + 1
                 /\ SubSeq(new, 1, Len(old)) = old
                 /\ Carries(new[Len(new)], item)
                 /\ ~Has(item, "id") => new[Len(new)].id \notin DrawnIds

DeleteEffect ==
    call'.op = "delete" =>
        storage'[call'.key] = SelectSeq(storage[call'.key], LAMBDA i : i.id # call'.id)

\* C24: after any sequence of save and delete on a collection, with fresh
\* ids from generateId, no two stored items share an id; a save of an item
\* with a known id replaces that item in place, the length and the other
\* items unchanged; a save with no id or an unknown id appends exactly one
\* item; a delete removes exactly the items with the given id.
C24_SaveAndDeleteKeepIdsUnique ==
    /\ []NoDuplicateIds
    /\ [][SaveEffect /\ DeleteEffect]_vars

\* an item of a collection of several has just been replaced in place
C24_Witness ==
    /\ call.op = "save"
    /\ Has(call.item, "id")
    /\ Has(ret, "updatedAt")
    /\ Len(storage[call.key]) >= 2
    /\ storage[call.key][1].id = call.item.id


\* ---------------------------------------------------------------------
\* Portfolio occupancy over the stored properties and bookings

MaxImoveis == 2
MaxReceitas == 2

\* the day before a date
PreviousDay(date) ==
    IF date.d > 1 THEN [date EXCEPT !.d = date.d - 1]
    ELSE IF date.mo > 0
         THEN [y |-> date.y, mo |-> date.mo - 1, d |-> DaysInMonth(date.y, date.mo - 1)]
         ELSE [y |-> date.y - 1, mo |-> 11, d |-> 31]

\* new Date('YYYY-MM-DD') is midnight UTC of that day: read with getFullYear
\* and getMonth it is the same day east of Greenwich and the day before west
\* of it
LocalDate(date, west) == IF west THEN PreviousDay(date) ELSE date

getImoveisAtivos(store) ==
    SelectSeq(store[STORAGE_KEYS.IMOVEIS],
              LAMBDA i : Has(i, "status") /\ i.status = "ativo")

\* r.numeroDiarias || 0
Diarias(r) == IF Has(r, "numeroDiarias") THEN r.numeroDiarias ELSE 0

RECURSIVE SumDiarias(_)
SumDiarias(receitas) ==
    IF receitas = << >> THEN 0 ELSE Diarias(Head(receitas)) + SumDiarias(Tail(receitas))

InMonth(date, year, month) == date.y = year /\ date.mo = month

\* DataManager.getOccupancyRate(year, month) in a browser west of Greenwich
\* or not
getOccupancyRate(store, year, month, west) ==
    LET imoveis  == getImoveisAtivos(store)
        receitas == store[STORAGE_KEYS.RECEITAS]
    IN  IF Len(imoveis) = 0
        THEN Zero(0)
        ELSE LET daysInMonth        == DaysInMonth(year, month)
                 totalAvailableDays == Len(imoveis) * daysInMonth
                 occupiedDays ==
                     SumDiarias(SelectSeq(receitas,
                         LAMBDA r : \/ InMonth(LocalDate(r.dataCheckIn, west), year, month)
                                    \/ InMonth(LocalDate(r.dataCheckOut, west), year, month)))
             IN  IF totalAvailableDays > 0
                 THEN FDiv(FromInt(occupiedDays), FromInt(totalAvailableDays))
                 ELSE Zero(0)

\* the list that the saves of new items, one after the other, store
SavedFrom(items, firstId) ==
    [i \in 1..Len(items) |->
        Assign(Assign(items[i], "id", firstId + i - 1), "createdAt", 0)]

ImovelStatus == { "ativo", "vendido" }
PropertyLists == SeqsUpTo({ [status |-> st] : st \in ImovelStatus }, MaxImoveis)

Booking(inY, inMo, inD, outY, outMo, outD) ==
    [dataCheckIn  |-> [y |-> inY, mo |-> inMo, d |-> inD],
     dataCheckOut |-> [y |-> outY, mo |-> outMo, d |-> outD]]

\* bookings of the first property: inside February 2024, from the first of
\* the month, across the end of January, and one without its count of nights
Bookings ==
    { Booking(2024, 1, 10, 2024, 1, 20) @@ [imovelId |-> 1, numeroDiarias |-> 10],
      Booking(2024, 1, 1, 2024, 1, 5)   @@ [imovelId |-> 1, numeroDiarias |-> 4],
      Booking(2024, 0, 20, 2024, 1, 25) @@ [imovelId |-> 1, numeroDiarias |-> 36],
      Booking(2024, 1, 27, 2024, 2, 1)  @@ [imovelId |-> 1] }
BookingLists == SeqsUpTo(Bookings, MaxReceitas)

OccupancyInputs ==
    { << year, month, west >> :
        year \in { 2023, 2024 }, month \in { 0, 1 }, west \in BOOLEAN }

OccupancyInit ==
    /\ LoanIdle
    /\ data = NoData
    /\ NoStatement
    /\ out = NoData
    /\ args \in OccupancyInputs
    /\ \E imoveis \in PropertyLists, receitas \in BookingLists :
          /\ storage = [k \in Collections |->
                           IF k = STORAGE_KEYS.IMOVEIS THEN SavedFrom(imoveis, 1)
                           ELSE IF k = STORAGE_KEYS.RECEITAS
                                THEN SavedFrom(receitas, Len(imoveis) + 1)
                                ELSE << >>]
          /\ nextId = Len(imoveis) + Len(receitas) + 1
    /\ deletedImoveis = {}
    /\ NoAccounts
    /\ now = 0
    /\ NoAppCall

GetOccupancyRate ==
    Returns("getOccupancyRate", getOccupancyRate(storage, args[1], args[2], args[3]))

OccupancySpec == OccupancyInit /\ [][GetOccupancyRate]_vars

ActiveProperties == Len(getImoveisAtivos(storage))

\* C30: DataManager.getOccupancyRate returns a value in [0, 1] for every
\* stored set of active properties and bookings and every year and month,
\* and 0 when there is no active property.
C30_OccupancyIsAFraction ==
    Called("getOccupancyRate") =>
        /\ FGe(out["getOccupancyRate"], Zero(0))
        /\ FLe(out["getOccupancyRate"], FromInt(1))
        /\ ActiveProperties = 0 => FEq(out["getOccupancyRate"], Zero(0))


\* ---------------------------------------------------------------------
\* Auth: users, pending registrations, verification codes and the session
\* in localStorage.  A time is a number of milliseconds, which toISOString
\* and new Date(string) carry over unchanged.

SESSION_TIMEOUT == 1800000
CODE_EXPIRATION == 900000

MaxAccounts == 3
MaxDraws == 5
MaxCodes == 2

\* JavaScript's null, which no string of the model equals
null == "null"

\* btoa(password + 'salt_key_str'): one hash for each password
hashPassword(password) == << "btoa", password, "salt_key_str" >>

verifyPassword(password, hash) == hashPassword(password) = hash

sanitizeUserKeepsPassword(user) == user

\* const { password, ...sanitized } = user
sanitizeUser(user) == [f \in DOMAIN user \ { "password" } |-> user[f]]

\* Array.prototype.find and findIndex: the first index that satisfies the
\* test, 0 when there is none
FirstIndex(list, Test(_)) ==
    IF \E i \in 1..Len(list) : Test(list[i])
    THEN CHOOSE i \in 1..Len(list) : Test(list[i]) /\ \A j \in 1..(i - 1) : ~Test(list[j])
    ELSE 0

Failure(message) == [success |-> FALSE, message |-> message]

\* Auth.createUser on the list of users: the list to store and the result
createUser(list, username, password, name, role, email, verified, id, t) ==
    IF FirstIndex(list, LAMBDA u : u.username = username) # 0
    THEN [users |-> list, ret |-> Failure("Usuário já existe")]
    ELSE IF email # null /\ FirstIndex(list, LAMBDA u : u.email = email) # 0
    THEN [users |-> list, ret |-> Failure("E-mail já cadastrado")]
    ELSE LET user == [id            |-> id,
                      username      |-> username,
                      password      |-> hashPassword(password),
                      name          |-> name,
                      role          |-> role,
                      email         |-> email,
                      emailVerified |-> verified,
                      createdAt     |-> t]
         IN  [users |-> Append(list, user),
              ret   |-> [success |-> TRUE, user |-> sanitizeUser(user)]]

NewSession(user, t) ==
    [user |-> sanitizeUser(user), loginTime |-> t, lastActivity |-> t]

\* Auth.login: the session to store and the result
login(list, current, username, password, t) ==
    LET index == FirstIndex(list, LAMBDA u : u.username = username)
    IN  IF index = 0
        THEN [session |-> current, ret |-> Failure("Usuário não encontrado")]
        ELSE IF ~verifyPassword(password, list[index].password)
        THEN [session |-> current, ret |-> Failure("Senha incorreta")]
        ELSE [session |-> NewSession(list[index], t),
              ret     |-> [success |-> TRUE, user |-> NewSession(list[index], t).user]]

loginWithEmail(list, current, emailOrUsername, password, t) ==
    LET index == FirstIndex(list, LAMBDA u : u.email = emailOrUsername
                                             \/ u.username = emailOrUsername)
    IN  IF index = 0
        THEN [session |-> current, ret |-> Failure("Usuário não encontrado")]
        ELSE IF ~list[index].emailVerified /\ list[index].email # null
        THEN [session |-> current,
              ret |-> Failure("E-mail não verificado. Verifique seu e-mail.")]
        ELSE IF ~verifyPassword(password, list[index].password)
        THEN [session |-> current, ret |-> Failure("Senha incorreta")]
        ELSE [session |-> NewSession(list[index], t),
              ret     |-> [success |-> TRUE, user |-> NewSession(list[index], t).user]]

sessionExpiredAtTimeout(current, t) == t - current.lastActivity >= SESSION_TIMEOUT

\* timeDiff > this.SESSION_TIMEOUT
sessionExpired(current, t) == t - current.lastActivity > SESSION_TIMEOUT

\* Auth.isAuthenticated: the session to store and the value returned
isAuthenticated(current, t) ==
    IF current = Nothing
    THEN [session |-> current, ret |-> FALSE]
    ELSE IF sessionExpired(current, t)
    THEN [session |-> Nothing, ret |-> FALSE]
    ELSE [session |-> [current EXCEPT !.lastActivity = t], ret |-> TRUE]

changePassword(list, username, oldPassword, newPassword) ==
    LET userIndex == FirstIndex(list, LAMBDA u : u.username = username)
    IN  IF userIndex = 0
        THEN [users |-> list, ret |-> Failure("Usuário não encontrado")]
        ELSE IF ~verifyPassword(oldPassword, list[userIndex].password)
        THEN [users |-> list, ret |-> Failure("Senha atual incorreta")]
        ELSE [users |-> [list EXCEPT ![userIndex].password = hashPassword(newPassword)],
              ret   |-> [success |-> TRUE, message |-> "Senha alterada com sucesso"]]

deleteUser(list, userId) == SelectSeq(list, LAMBDA u : u.id # userId)

\* { ...user, ...updates }: the fields of updates over those of user
Spread(user, updates) == updates @@ user

updateUserWithEveryKey(list, userId, updates, t) ==
    LET userIndex == FirstIndex(list, LAMBDA u : u.id = userId)
    IN  IF userIndex = 0
        THEN [users |-> list, ret |-> Failure("Usuário não encontrado")]
        ELSE LET updated == Assign(Spread(list[userIndex], updates), "updatedAt", t)
             IN  [users |-> [list EXCEPT ![userIndex] = updated],
                  ret   |-> [success |-> TRUE, user |-> sanitizeUser(updated)]]

updateUser(list, userId, updates, t) ==
    LET userIndex == FirstIndex(list, LAMBDA u : u.id = userId)
    IN  IF userIndex = 0
        THEN [users |-> list, ret |-> Failure("Usuário não encontrado")]
        ELSE LET allowedUpdates ==
                     [f \in DOMAIN updates \ { "username", "password" } |-> updates[f]]
                 updated ==
                     Assign(Spread(list[userIndex], allowedUpdates), "updatedAt", t)
             IN  [users |-> [list EXCEPT ![userIndex] = updated],
                  ret   |-> [success |-> TRUE, user |-> sanitizeUser(updated)]]

\* the addresses and passwords of the model
Emails == { "ana@site.com", "admin@site.org" }
AdminEmail == "admin@sistema.com.br"
Passwords == { "admin123", "Senha1" }

\* /^[^\s@]+@[^\s@]+\.[^\s@]+$/ on the addresses of the model
validateEmail(email) == email \in Emails \cup { AdminEmail }

\* at least 6 characters, an upper case letter and a digit, on the passwords
\* of the model
validatePassword(password) ==
    IF password = "Senha1"
    THEN [valid |-> TRUE]
    ELSE IF password = "admin123"
    THEN [valid |-> FALSE, message |-> "Senha deve conter pelo menos uma letra maiúscula"]
    ELSE [valid |-> FALSE, message |-> "Senha deve ter no mínimo 6 caracteres"]

\* email.split('@')[0] on the addresses of the model
LocalPart(email) ==
    CASE email = "ana@site.com"   -> "ana"
      [] email = "admin@site.org" -> "admin"
      [] email = AdminEmail       -> "admin"
      [] OTHER                    -> email

\* Math.floor(100000 + Math.random() * 900000).toString(): any of the codes
Codes == { "111111", "222222" }

sendVerificationCode(codes, email, code, t) ==
    Append(codes, [email     |-> email,
                   code      |-> code,
                   createdAt |-> t,
                   expiresAt |-> t + CODE_EXPIRATION])

\* Auth.registerUser with the code that generateVerificationCode drew
registerUser(list, pending, codes, email, password, name, code, id, t) ==
    LET unchanged(r) == [pending |-> pending, codes |-> codes, ret |-> r]
    IN  IF ~validateEmail(email)
        THEN unchanged(Failure("E-mail inválido"))
        ELSE IF ~validatePassword(password).valid
        THEN unchanged(Failure(validatePassword(password).message))
        ELSE IF FirstIndex(list, LAMBDA u : u.email = email) # 0
        THEN unchanged(Failure("E-mail já cadastrado"))
        ELSE IF FirstIndex(pending, LAMBDA u : u.email = email) # 0
        THEN unchanged(Failure("E-mail já possui registro pendente. Verifique seu e-mail."))
        ELSE LET pendingUser == [id        |-> id,
                                 email     |-> email,
                                 password  |-> hashPassword(password),
                                 name      |-> name,
                                 username  |-> LocalPart(email),
                                 role      |-> "user",
                                 createdAt |-> t]
             IN  [pending |-> Append(pending, pendingUser),
                  codes   |-> sendVerificationCode(codes, email, code, t),
                  ret     |-> [success |-> TRUE,
                               message |-> "Código de verificação enviado para seu e-mail",
                               userId  |-> id]]

MatchesEmail(c, email, code) == c.email = email

\* c.email === email && c.code === code
Matches(c, email, code) == c.email = email /\ c.code = code

\* Auth.verifyCode: the three lists to store and the result
verifyCode(list, pending, codes, email, code, id, t) ==
    LET unchanged(r) == [users |-> list, pending |-> pending, codes |-> codes, ret |-> r]
        codeIndex    == FirstIndex(codes, LAMBDA c : Matches(c, email, code))
        pendingIndex == FirstIndex(pending, LAMBDA u : u.email = email)
    IN  IF codeIndex = 0
        THEN unchanged(Failure("Código inválido"))
        ELSE IF t > codes[codeIndex].expiresAt
        THEN unchanged(Failure("Código expirado. Solicite um novo código."))
        ELSE IF pendingIndex = 0
        THEN unchanged(Failure("Usuário não encontrado"))
        ELSE LET pendingUser == pending[pendingIndex]
                 created == createUser(list, pendingUser.username, "", pendingUser.name,
                                       pendingUser.role, pendingUser.email, TRUE, id, t)
                 userIndex == FirstIndex(created.users, LAMBDA u : u.email = email)
             IN  IF ~created.ret.success
                 THEN unchanged(created.ret)
                 ELSE [users   |-> IF userIndex # 0
                                   THEN [created.users EXCEPT
                                            ![userIndex].password = pendingUser.password]
                                   ELSE created.users,
                       pending |-> SelectSeq(pending, LAMBDA u : u.email # email),
                       codes   |-> SelectSeq(codes, LAMBDA c : ~Matches(c, email, code)),
                       ret     |-> [success |-> TRUE,
                                    message |-> "E-mail verificado com sucesso!",
                                    user    |-> created.ret.user]]

resendVerificationCode(pending, codes, email, code, t) ==
    IF FirstIndex(pending, LAMBDA u : u.email = email) = 0
    THEN [codes |-> codes,
          ret   |-> Failure("Nenhum registro pendente encontrado para este e-mail")]
    ELSE [codes |-> sendVerificationCode(codes, email, code, t),
          ret   |-> [success |-> TRUE, message |-> "Novo código enviado para seu e-mail"]]

cleanExpiredCodes(codes, t) == SelectSeq(codes, LAMBDA c : t <= c.expiresAt)

MaxWaits == 1
MaxDrift == 1

Usernames == { "admin", "ana" }

\* the email and verified arguments of createUser, the defaults among them
CreateEmails == { << null, FALSE >>, << "ana@site.com", FALSE >> }

\* updates of updateUser, with and without the keys username and password
Updates ==
    { [name |-> "Eva"],
      [username |-> "eva", password |-> hashPassword("Senha1"), role |-> "admin"] }

\* the browser after Auth.init: the default administrator and no session
AuthInit ==
    /\ LoanIdle
    /\ data = NoData
    /\ NoStatement
    /\ NoFunctionCall
    /\ NoStoredItems
    /\ users = createUser(<< >>, "admin", "admin123", "Administrador", "admin",
                          AdminEmail, TRUE, 1, 0).users
    /\ pendingUsers = << >>
    /\ verificationCodes = << >>
    /\ session = Nothing
    /\ verifiedPairs = {}
    /\ nextId = 2
    /\ now = 0
    /\ NoAppCall

AuthFrame == UNCHANGED << loanVars, stmtVars, fnVars, storeVars >>

CreateUser ==
    \E username \in Usernames, password \in Passwords, ev \in CreateEmails :
        LET r == createUser(users, username, password, "Ana", "user", ev[1], ev[2],
                            generateId, now)
        IN  /\ r.ret.success => nextId <= MaxAccounts
            /\ users' = r.users
            /\ nextId' = IF r.ret.success THEN nextId + 1 ELSE nextId
            /\ call' = [op |-> "createUser"]
            /\ ret' = r.ret
            /\ UNCHANGED << pendingUsers, verificationCodes, session, verifiedPairs, now >>
            /\ AuthFrame

Login ==
    \E username \in Usernames, password \in Passwords :
        LET r == login(users, session, username, password, now)
        IN  /\ session' = r.session
            /\ call' = [op |-> "login"]
            /\ ret' = r.ret
            /\ UNCHANGED << users, pendingUsers, verificationCodes, verifiedPairs,
                            nextId, now >>
            /\ AuthFrame

LoginWithEmail ==
    \E emailOrUsername \in Usernames \cup Emails, password \in Passwords :
        LET r == loginWithEmail(users, session, emailOrUsername, password, now)
        IN  /\ session' = r.session
            /\ call' = [op |-> "loginWithEmail"]
            /\ ret' = r.ret
            /\ UNCHANGED << users, pendingUsers, verificationCodes, verifiedPairs,
                            nextId, now >>
            /\ AuthFrame

Logout ==
    /\ session' = Nothing
    /\ call' = [op |-> "logout"]
    /\ ret' = Nothing
    /\ UNCHANGED << users, pendingUsers, verificationCodes, verifiedPairs, nextId, now >>
    /\ AuthFrame

\* session ? session.user : null
GetCurrentUser ==
    /\ call' = [op |-> "getCurrentUser"]
    /\ ret' = IF session # Nothing THEN session.user ELSE Nothing
    /\ UNCHANGED << authVars, nextId, now >>
    /\ AuthFrame

IsAuthenticated ==
    LET r == isAuthenticated(session, now)
    IN  /\ session' = r.session
        /\ call' = [op |-> "isAuthenticated"]
        /\ ret' = r.ret
        /\ UNCHANGED << users, pendingUsers, verificationCodes, verifiedPairs, nextId, now >>
        /\ AuthFrame

ChangePassword ==
    \E username \in Usernames, oldPassword \in Passwords, newPassword \in Passwords :
        LET r == changePassword(users, username, oldPassword, newPassword)
        IN  /\ users' = r.users
            /\ call' = [op |-> "changePassword"]
            /\ ret' = r.ret
            /\ UNCHANGED << pendingUsers, verificationCodes, session, verifiedPairs,
                            nextId, now >>
            /\ AuthFrame

DeleteUser ==
    \E userId \in DrawnIds :
        /\ users' = deleteUser(users, userId)
        /\ call' = [op |-> "deleteUser", userId |-> userId]
        /\ ret' = TRUE
        /\ UNCHANGED << pendingUsers, verificationCodes, session, verifiedPairs,
                        nextId, now >>
        /\ AuthFrame

UpdateUser ==
    \E userId \in DrawnIds, updates \in Updates :
        LET r == updateUser(users, userId, updates, now)
        IN  /\ users' = r.users
            /\ call' = [op |-> "updateUser", userId |-> userId, updates |-> updates]
            /\ ret' = r.ret
            /\ UNCHANGED << pendingUsers, verificationCodes, session, verifiedPairs,
                            nextId, now >>
            /\ AuthFrame

RegisterUser ==
    \E email \in Emails, password \in Passwords, code \in Codes :
        LET r == registerUser(users, pendingUsers, verificationCodes, email, password,
                              "Ana", code, generateId, now)
        IN  /\ r.ret.success => nextId <= MaxDraws /\ Len(r.codes) <= MaxCodes
            /\ pendingUsers' = r.pending
            /\ verificationCodes' = r.codes
            /\ nextId' = IF r.ret.success THEN nextId + 1 ELSE nextId
            /\ call' = [op |-> "registerUser", email |-> email]
            /\ ret' = r.ret
            /\ UNCHANGED << users, session, verifiedPairs, now >>
            /\ AuthFrame

VerifyCode ==
    \E email \in Emails, code \in Codes :
        LET r == verifyCode(users, pendingUsers, verificationCodes, email, code,
                            generateId, now)
        IN  /\ r.ret.success => nextId <= MaxDraws
            /\ users' = r.users
            /\ pendingUsers' = r.pending
            /\ verificationCodes' = r.codes
            /\ verifiedPairs' = IF r.ret.success
                                THEN verifiedPairs \cup { << email, code >> }
                                ELSE verifiedPairs
            /\ nextId' = IF r.ret.success THEN nextId + 1 ELSE nextId
            /\ call' = [op |-> "verifyCode", email |-> email, code |-> code]
            /\ ret' = r.ret
            /\ UNCHANGED << session, now >>
            /\ AuthFrame

ResendVerificationCode ==
    \E email \in Emails, code \in Codes :
        LET r == resendVerificationCode(pendingUsers, verificationCodes, email, code, now)
        IN  /\ Len(r.codes) <= MaxCodes
            /\ verificationCodes' = r.codes
            /\ call' = [op |-> "resendVerificationCode", email |-> email]
            /\ ret' = r.ret
            /\ UNCHANGED << users, pendingUsers, session, verifiedPairs, nextId, now >>
            /\ AuthFrame

CleanExpiredCodes ==
    /\ verificationCodes' = cleanExpiredCodes(verificationCodes, now)
    /\ call' = [op |-> "cleanExpiredCodes"]
    /\ ret' = Nothing
    /\ UNCHANGED << users, pendingUsers, session, verifiedPairs, nextId, now >>
    /\ AuthFrame

\* time passes between two calls
Pass(d) ==
    /\ now' = now + d
    /\ call' = [op |-> "none"]
    /\ ret' = Nothing
    /\ UNCHANGED << authVars, nextId >>
    /\ AuthFrame

\* a millisecond passes
Tick == now % CODE_EXPIRATION < MaxDrift /\ Pass(1)

\* the lifetime of a verification code passes
CodeLifetimePasses == now \div CODE_EXPIRATION < MaxWaits /\ Pass(CODE_EXPIRATION)

\* the lifetime of an idle session passes
SessionLifetimePasses == now \div SESSION_TIMEOUT < MaxWaits /\ Pass(SESSION_TIMEOUT)

\* the accounts under updateUser and the calls that write the same list
UpdateNext ==
    \/ CreateUser
    \/ UpdateUser
    \/ ChangePassword
    \/ DeleteUser
UpdateSpec == AuthInit /\ [][UpdateNext]_vars

\* the calls that return a user, the clock standing still
AccountNext ==
    \/ CreateUser
    \/ Login
    \/ LoginWithEmail
    \/ GetCurrentUser
    \/ UpdateUser
    \/ RegisterUser
    \/ VerifyCode
AccountSpec == AuthInit /\ [][AccountNext]_vars

\* sessions as time passes
SessionNext ==
    \/ CreateUser
    \/ Login
    \/ LoginWithEmail
    \/ Logout
    \/ ChangePassword
    \/ DeleteUser
    \/ IsAuthenticated
    \/ Tick
    \/ SessionLifetimePasses
SessionSpec == AuthInit /\ [][SessionNext]_vars

\* registrations by email as time passes
RegistrationNext ==
    \/ RegisterUser
    \/ ResendVerificationCode
    \/ VerifyCode
    \/ CleanExpiredCodes
    \/ DeleteUser
    \/ Tick
    \/ CodeLifetimePasses
RegistrationSpec == AuthInit /\ [][RegistrationNext]_vars

\* C25: Auth.updateUser(userId, updates) never changes the username or the
\* password of any stored user, whatever keys updates has; it changes no
\* user other than the one with id userId; for an unknown id it returns
\* success: false and leaves the store as it was.
C25_UpdateUserKeepsCredentials ==
    [][call'.op = "updateUser" =>
          LET index == FirstIndex(users, LAMBDA u : u.id = call'.userId)
          IN  /\ Len(users') = Len(users)
              /\ \A i \in 1..Len(users) :
                    /\ users'[i].username = users[i].username
                    /\ users'[i].password = users[i].password
                    /\ users[i].id # call'.userId => users'[i] = users[i]
              /\ index = 0 =>
                    /\ ret'.success = FALSE
                    /\ users' = users
                    /\ pendingUsers' = pendingUsers
                    /\ verificationCodes' = verificationCodes
                    /\ session' = session]_vars

\* updateUser has applied updates that carry a password to one of two users
C25_Witness ==
    /\ call.op = "updateUser"
    /\ ret.success
    /\ Has(call.updates, "password")
    /\ ret.user.role = "admin"
    /\ ret.user.username = "ana"
    /\ Len(users) >= 2

ReturnsUser == { "createUser", "login", "loginWithEmail", "updateUser", "verifyCode" }

\* C26: after any sequence of Auth operations the stored session and every
\* user object returned by createUser, login, loginWithEmail, updateUser,
\* verifyCode and getCurrentUser have no password field.
C26_NoPasswordLeavesTheStore ==
    /\ session # Nothing => ~Has(session, "password") /\ ~Has(session.user, "password")
    /\ (call.op \in ReturnsUser /\ Has(ret, "user")) => ~Has(ret.user, "password")
    /\ call.op = "getCurrentUser" => ~Has(ret, "password")

\* getCurrentUser has returned the user of the session, whose stored record
\* holds a password
C26_Witness ==
    /\ call.op = "getCurrentUser"
    /\ Has(ret, "id")
    /\ \E i \in 1..Len(users) : users[i].id = ret.id /\ Has(users[i], "password")

\* C27: isAuthenticated returns true exactly when a session exists and no
\* more than 30 minutes have passed since its lastActivity; returning true
\* it sets lastActivity to the current time and leaves user and loginTime
\* as they were; on expiry it removes the session, so that every later call
\* returns false until a login succeeds.
C27_SessionLivesThirtyMinutes ==
    /\ [][call'.op = "isAuthenticated" =>
             /\ ret' = (session # Nothing /\ now - session.lastActivity <= 30 * 60 * 1000)
             /\ ret' => session' = [session EXCEPT !.lastActivity = now]
             /\ ~ret' => session' = Nothing]_vars
    /\ [][(session = Nothing /\ session' # Nothing) =>
             (call'.op \in { "login", "loginWithEmail" } /\ ret'.success)]_vars

\* isAuthenticated has returned true exactly 30 minutes after the login
C27_Witness ==
    /\ call.op = "isAuthenticated"
    /\ ret = TRUE
    /\ session.lastActivity - session.loginTime = 30 * 60 * 1000

\* C28: after any sequence of Auth operations, whenever isAuthenticated
\* returns true the user of the session is still in the stored list of
\* users.
C28_AuthenticatedUserIsStored ==
    (call.op = "isAuthenticated" /\ ret = TRUE) =>
        \E i \in 1..Len(users) : users[i].id = session.user.id

VerifyCodeEffect ==
    call'.op = "verifyCode" =>
        LET email == call'.email
            code  == call'.code
        IN  IF ret'.success
            THEN /\ \E i \in 1..Len(verificationCodes) :
                       /\ verificationCodes[i].email = email
                       /\ verificationCodes[i].code = code
                       /\ now <= verificationCodes[i].expiresAt
                 /\ \E i \in 1..Len(pendingUsers) :
                       /\ pendingUsers[i].email = email
                       /\ users'[Len(users')].password = pendingUsers[i].password
                 /\ Len(users') = Len(users) + 1
                 /\ SubSeq(users', 1, Len(users)) = users
                 /\ users'[Len(users')].email = email
                 /\ users'[Len(users')].emailVerified = TRUE
                 /\ \A i \in 1..Len(pendingUsers') : pendingUsers'[i].email # email
                 /\ \A i \in 1..Len(verificationCodes') :
                       ~(/\ verificationCodes'[i].email = email
                         /\ verificationCodes'[i].code = code)
            ELSE /\ users' = users
                 /\ pendingUsers' = pendingUsers
                 /\ verificationCodes' = verificationCodes

\* the password of every pending registration is the hash of a password
\* that registerUser accepts
PendingHashes ==
    \A i \in 1..Len(pendingUsers) :
        \E password \in Passwords :
            /\ validatePassword(password).valid
            /\ pendingUsers[i].password = hashPassword(password)

\* C29: verifyCode(email, code) succeeds only if a stored, unexpired code
\* matches the email and a pending registration exists; on success it
\* creates exactly one user with emailVerified = true and the password hash
\* chosen at registerUser and removes the pending registration and the used
\* code, so that the same (email, code) pair never succeeds a second time;
\* on every failure the user, pending and code stores are unchanged.
C29_VerifyCodeOnceOnly ==
    /\ []PendingHashes
    /\ [][VerifyCodeEffect]_vars
    /\ [][(call'.op = "verifyCode" /\ ret'.success) =>
             << call'.email, call'.code >> \notin verifiedPairs]_vars

\* C29 as amended: as above, but the pair is spent only as a stored code:
\* after the success no stored code matches (email, code) and no pending
\* registration for the email is left, so the pair fails until a later
\* registration of the email draws the same code again.
C29_VerifyCodeSpendsTheCode ==
    /\ []PendingHashes
    /\ [][VerifyCodeEffect]_vars

\* verifyCode has created the verified user of a registration
C29_Witness ==
    /\ call.op = "verifyCode"
    /\ ret.success
    /\ \E i \in 1..Len(users) :
          /\ users[i].email = call.email
          /\ users[i].emailVerified
          /\ users[i].password = hashPassword("Senha1")
          /\ users[i].id = ret.user.id
====
